---------------------------- MODULE Spec2Model ----------------------------
(***************************************************************************)
(* Model of the backtesting core of Trade-Crypto:                          *)
(*   src/src/backtester.py     Backtester (position simulator, aggregator) *)
(*   src/src/signal_engine.py  SignalEngine (scoring, trade levels)        *)
(*                                                                         *)
(* Numbers.  The program computes with Python floats.  The model computes  *)
(* with exact rationals [n |-> numerator, d |-> denominator], kept in      *)
(* lowest terms with d > 0, so that equal values are equal records.  The   *)
(* record with d = 0 stands for Python's None (a missing metric).          *)
(***************************************************************************)
EXTENDS Integers, Sequences, FiniteSets, TLC

----------------------------------------------------------------------------
(* Exact rational arithmetic                                               *)

Abs(x) == IF x < 0 THEN -x ELSE x

RECURSIVE GCD(_, _)
GCD(a, b) == IF b = 0 THEN a ELSE GCD(b, a % b)

\* the rational n/d (d # 0) in lowest terms with a positive denominator
Q(n, d) ==
    LET s == IF (n < 0) # (d < 0) THEN -1 ELSE 1
        g == GCD(Abs(n), Abs(d))
    IN  [n |-> s * (Abs(n) \div g), d |-> Abs(d) \div g]

I(k) == [n |-> k, d |-> 1]

RAdd(x, y) ==
    LET g == GCD(x.d, y.d)
    IN  Q(x.n * (y.d \div g) + y.n * (x.d \div g), (x.d \div g) * y.d)

RNeg(x) == [n |-> -x.n, d |-> x.d]

RSub(x, y) == RAdd(x, RNeg(y))

RMul(x, y) ==
    LET g1 == GCD(Abs(x.n), y.d)
        g2 == GCD(Abs(y.n), x.d)
    IN  IF x.n = 0 \/ y.n = 0 THEN I(0)
        ELSE [n |-> (x.n \div g1) * (y.n \div g2),
              d |-> (x.d \div g2) * (y.d \div g1)]

\* x / y for y # 0
RDiv(x, y) ==
    RMul(x, IF y.n < 0 THEN [n |-> -y.d, d |-> -y.n] ELSE [n |-> y.d, d |-> y.n])

RAbs(x) == [n |-> Abs(x.n), d |-> x.d]

RLt(x, y) ==
    LET g == GCD(x.d, y.d)
    IN  x.n * (y.d \div g) < y.n * (x.d \div g)

RLe(x, y) == ~RLt(y, x)
RGt(x, y) == RLt(y, x)
RGe(x, y) == ~RLt(x, y)

Zero == I(0)
One  == I(1)

\* Python's None, and Python truthiness of a number-or-None
None == [n |-> 0, d |-> 0]
Truthy(x) == x.d # 0 /\ x.n # 0

----------------------------------------------------------------------------
(* SignalEngine                                                            *)

\* the boundaries of analyze's comparisons, as exact rationals
RSI_DIP       == I(40)
RSI_OVERBOUGHT == I(70)
RSI_MID       == I(50)
RSI_RIP       == I(60)
RSI_OVERSOLD  == I(30)
SUPPORT_BAND    == Q(101, 100)
RESISTANCE_BAND == Q(99, 100)
VOL_EXTREME == Q(2, 1)
VOL_HIGH    == Q(12, 10)
VOL_LOW     == Q(6, 10)

\* a missing trend_strength read as Medium
TrendStrengthDefaultMedium(m) ==
    IF m.trend_strength = "None" THEN "Medium" ELSE m.trend_strength

\* lines 35 and 200: metrics.get('trend_strength', 'Weak'); "None" is a missing key
TrendStrength(m) == IF m.trend_strength = "None" THEN "Weak" ELSE m.trend_strength

\* lines 19-32: directional trend
TrendScore(m) ==
    IF m.trend_direction = "Bullish"
      THEN 15 + (IF Truthy(m.ema_50) /\ RGt(m.close, m.ema_50) THEN 10 ELSE 0)
    ELSE IF m.trend_direction = "Bearish"
      THEN -15 - (IF Truthy(m.ema_50) /\ RLt(m.close, m.ema_50) THEN 10 ELSE 0)
    ELSE 0

\* lines 40-44: market regime from EMA200
IsBullRegime(m) == Truthy(m.ema_200) /\ RGt(m.close, m.ema_200)
IsBearRegime(m) == Truthy(m.ema_200) /\ ~RGt(m.close, m.ema_200)

\* lines 62-69: EMA200 filter
RegimeFilter(m, score) ==
    IF IsBullRegime(m)
      THEN (IF score > 0 THEN score + 15 ELSE IF score < 0 THEN 0 ELSE score)
    ELSE IF IsBearRegime(m)
      THEN (IF score < 0 THEN score - 15 ELSE IF score > 0 THEN 0 ELSE score)
    ELSE score

\* lines 71-74: trend bonus
TrendBonus(m, score) ==
    IF TrendStrength(m) \in {"Strong", "Very Strong"}
      THEN (IF score > 0 THEN score + 10 ELSE IF score < 0 THEN score - 10 ELSE score)
      ELSE score

\* lines 76-106: RSI in trend-following mode
RsiScore(m, score) ==
    IF IsBullRegime(m) THEN
        IF RLt(m.rsi, RSI_DIP) THEN score + 20
        ELSE IF RGt(m.rsi, RSI_OVERBOUGHT)
          THEN (IF TrendStrength(m) = "Very Strong" THEN score + 5 ELSE score - 10)
        ELSE IF RGt(m.rsi, RSI_MID) THEN score + 10
        ELSE score
    ELSE IF IsBearRegime(m) THEN
        IF RGt(m.rsi, RSI_RIP) THEN score - 20
        ELSE IF RLt(m.rsi, RSI_OVERSOLD)
          THEN (IF TrendStrength(m) = "Very Strong" THEN score - 5 ELSE score + 10)
        ELSE IF RLt(m.rsi, RSI_MID) THEN score - 10
        ELSE score
    ELSE score

\* lines 50-106: strategy switching on trend strength
RegimeGate(m, score) ==
    IF TrendStrength(m) = "Weak" THEN 0
    ELSE RsiScore(m, TrendBonus(m, RegimeFilter(m, score)))

\* a MACD rule that leaves the score alone when the histogram is 0
MacdScoreZeroNeutral(m, score) ==
    IF RGt(m.macd_hist, Zero) THEN score + 10
    ELSE IF RLt(m.macd_hist, Zero) THEN score - 10
    ELSE score

\* lines 110-117: MACD histogram
MacdScore(m, score) ==
    IF RGt(m.macd_hist, Zero) THEN score + 10 ELSE score - 10

\* a proximity rule with a 2% band around support and resistance
SupportResistanceScoreWideBand(m, score) ==
    LET s1 == IF Truthy(m.support) /\ RLe(m.close, RMul(m.support, Q(102, 100)))
                THEN score + 15 ELSE score
    IN  IF Truthy(m.resistance) /\ RGe(m.close, RMul(m.resistance, Q(98, 100)))
          THEN s1 - 15 ELSE s1

\* lines 119-131: support / resistance proximity
SupportResistanceScore(m, score) ==
    LET s1 == IF Truthy(m.support) /\ RLe(m.close, RMul(m.support, SUPPORT_BAND))
                THEN score + 15 ELSE score
    IN  IF Truthy(m.resistance) /\ RGe(m.close, RMul(m.resistance, RESISTANCE_BAND))
          THEN s1 - 15 ELSE s1

\* lines 133-164: volume confirmation
VolumeScore(m, score) ==
    IF Truthy(m.volume) /\ Truthy(m.vol_sma) /\ RGt(m.vol_sma, Zero) THEN
        LET vol_ratio == RDiv(m.volume, m.vol_sma)
        IN  IF RGt(vol_ratio, VOL_EXTREME)
              THEN (IF score > 0 THEN score + 20 ELSE IF score < 0 THEN score - 20 ELSE score)
            ELSE IF RGt(vol_ratio, VOL_HIGH)
              THEN (IF score > 0 THEN score + 10 ELSE IF score < 0 THEN score - 10 ELSE score)
            ELSE IF RLt(vol_ratio, VOL_LOW)
              THEN (IF score > 0 THEN score - 5 ELSE IF score < 0 THEN score + 5 ELSE score)
            ELSE score
    ELSE score

\* lines 11-164: the additive score before normalisation
Score(m) ==
    VolumeScore(m, SupportResistanceScore(m, MacdScore(m, RegimeGate(m, TrendScore(m)))))

Min(a, b) == IF a < b THEN a ELSE b
Max(a, b) == IF a > b THEN a ELSE b

\* analyze with strict signal thresholds (> 75, < 25)
analyze_strict_thresholds(m) ==
    LET final_probability == Max(0, Min(100, 50 + Score(m)))
        signal == IF final_probability > 75 THEN "BUY"
                  ELSE IF final_probability < 25 THEN "SELL"
                  ELSE "HOLD"
        reason == IF final_probability >= 75 THEN "Strong Bullish Confluence"
                  ELSE IF final_probability <= 25 THEN "Strong Bearish Confluence"
                  ELSE "Market Indecisive"
    IN  [signal      |-> signal,
         reason      |-> reason,
         probability |-> final_probability,
         confidence  |-> Abs(final_probability - 50) * 2]

\* analyze without the upper clamp of line 171
analyze_no_upper_clamp(m) ==
    LET final_probability == Max(0, 50 + Score(m))
        signal == IF final_probability >= 75 THEN "BUY"
                  ELSE IF final_probability <= 25 THEN "SELL"
                  ELSE "HOLD"
        reason == IF final_probability >= 75 THEN "Strong Bullish Confluence"
                  ELSE IF final_probability <= 25 THEN "Strong Bearish Confluence"
                  ELSE "Market Indecisive"
    IN  [signal      |-> signal,
         reason      |-> reason,
         probability |-> final_probability,
         confidence  |-> Abs(final_probability - 50) * 2]

\* lines 170-194: probability, signal, reason, confidence
analyze(m) ==
    LET final_probability == Max(0, Min(100, 50 + Score(m)))
        signal == IF final_probability >= 75 THEN "BUY"
                  ELSE IF final_probability <= 25 THEN "SELL"
                  ELSE "HOLD"
        reason == IF final_probability >= 75 THEN "Strong Bullish Confluence"
                  ELSE IF final_probability <= 25 THEN "Strong Bearish Confluence"
                  ELSE "Market Indecisive"
    IN  [signal      |-> signal,
         reason      |-> reason,
         probability |-> final_probability,
         confidence  |-> Abs(final_probability - 50) * 2]

\* lines 200-214: stop / target multiples of ATR by trend strength
SlMult(trend_strength) ==
    IF trend_strength \in {"Strong", "Very Strong"} THEN Q(2, 1)
    ELSE IF trend_strength = "Weak" THEN Q(15, 10)
    ELSE Q(18, 10)

\* a target of 6 x ATR in a strong trend, beyond the trailing trigger
TpMultBeyondTrigger(trend_strength) ==
    IF trend_strength \in {"Strong", "Very Strong"} THEN Q(6, 1)
    ELSE IF trend_strength = "Weak" THEN Q(2, 1)
    ELSE Q(3, 1)

TpMult(trend_strength) ==
    IF trend_strength \in {"Strong", "Very Strong"} THEN Q(4, 1)
    ELSE IF trend_strength = "Weak" THEN Q(2, 1)
    ELSE Q(3, 1)

\* lines 196-225
calculate_entry_exit(m, signal, price, atr) ==
    LET sl_mult == SlMult(TrendStrength(m))
        tp_mult == TpMult(TrendStrength(m))
    IN  IF signal = "BUY"
          THEN [entry |-> price,
                sl |-> RSub(price, RMul(sl_mult, atr)),
                tp |-> RAdd(price, RMul(tp_mult, atr))]
        ELSE IF signal = "SELL"
          THEN [entry |-> price,
                sl |-> RAdd(price, RMul(sl_mult, atr)),
                tp |-> RSub(price, RMul(tp_mult, atr))]
        ELSE [entry |-> price, sl |-> Zero, tp |-> Zero]

----------------------------------------------------------------------------
(* Backtester: bounds and inputs                                           *)

\* Backtester.run: start_index, and the margin added to it in the length check
start_index == 200
min_margin  == 10

\* The rows of the feed.  Row start_index is drawn from FirstBars (the run is
\* flat there, so only the close and the indicators matter), the next
\* MaxActive - 1 rows from Bars, and the rows after them are the one row of
\* TailBars (no signal, no touch), which bounds the entries of a run.
MaxActive == 2

\* risk per trade and the trailing-stop multiples
RISK_PCT      == Q(2, 100)
TRAIL_TRIGGER == Q(25, 10)
TRAIL_SECURE  == Q(5, 10)

\* constructor arguments
Configs ==
    { [initial_capital |-> I(10000), fee_pct |-> f, slippage_pct |-> s] :
        f \in {Zero, Q(1, 4)}, s \in {Zero, Q(1, 5)} }

\* a run's inputs: constructor arguments, len(df), close of df.iloc[0]
Setups ==
    { [config |-> c, n_bars |-> start_index + min_margin, first_close |-> I(80)] :
        c \in Configs }
    \cup
    { [config |-> [initial_capital |-> I(10000), fee_pct |-> Zero,
                   slippage_pct |-> Zero],
       n_bars |-> n, first_close |-> I(100)] :
        n \in {0, 1, start_index + min_margin - 1, start_index + min_margin + 1} }

\* indicator columns of a row, apart from ATR
StrongBuy ==
    [EMA_50 |-> I(95), EMA_200 |-> I(90), ADX_14 |-> I(30), RSI |-> I(35),
     MACDh |-> I(1), Support_Dynamic |-> I(90), Resistance_Dynamic |-> I(150),
     volume |-> I(250), VOL_SMA_20 |-> I(100)]
StrongSell ==
    [EMA_50 |-> I(110), EMA_200 |-> I(120), ADX_14 |-> I(30), RSI |-> I(65),
     MACDh |-> I(-1), Support_Dynamic |-> I(50), Resistance_Dynamic |-> I(150),
     volume |-> I(250), VOL_SMA_20 |-> I(100)]
WeakHold ==
    [EMA_50 |-> I(95), EMA_200 |-> I(90), ADX_14 |-> I(20), RSI |-> I(55),
     MACDh |-> I(1), Support_Dynamic |-> I(50), Resistance_Dynamic |-> I(150),
     volume |-> I(100), VOL_SMA_20 |-> I(100)]
WeakBuy ==
    [EMA_50 |-> I(95), EMA_200 |-> I(90), ADX_14 |-> I(20), RSI |-> I(55),
     MACDh |-> I(1), Support_Dynamic |-> I(105), Resistance_Dynamic |-> I(150),
     volume |-> I(250), VOL_SMA_20 |-> I(100)]
WeakSell ==
    [EMA_50 |-> I(110), EMA_200 |-> I(120), ADX_14 |-> I(20), RSI |-> I(45),
     MACDh |-> I(-1), Support_Dynamic |-> I(50), Resistance_Dynamic |-> I(90),
     volume |-> I(250), VOL_SMA_20 |-> I(100)]

\* a row from its price shape <<open, high, low, close>>, indicators and ATR
Row(shape, ind, atr) ==
    [open |-> I(shape[1]), high |-> I(shape[2]), low |-> I(shape[3]),
     close |-> I(shape[4]), ATR |-> atr,
     EMA_50 |-> ind.EMA_50, EMA_200 |-> ind.EMA_200, ADX_14 |-> ind.ADX_14,
     RSI |-> ind.RSI, MACDh |-> ind.MACDh,
     Support_Dynamic |-> ind.Support_Dynamic,
     Resistance_Dynamic |-> ind.Resistance_Dynamic,
     volume |-> ind.volume, VOL_SMA_20 |-> ind.VOL_SMA_20]

QuietShape == <<100, 101, 99, 100>>

\* price shapes that touch or trail the levels of a position entered at 100
ExitShapes ==
    { QuietShape,
      <<101, 110,  94, 100>>, <<100, 111,  99, 100>>, <<105, 110, 101, 105>>,
      <<102, 108,  96, 100>>, << 97, 108,  95, 100>>, <<107, 109,  96, 105>>,
      <<100, 109,  99, 100>>, <<100, 101,  91, 100>>, << 98, 106,  90,  95>>,
      << 98, 104,  92, 100>>, <<100, 101,   0, 100>> }

FirstBars ==
    { Row(QuietShape, ind, I(2)) : ind \in {StrongBuy, StrongSell, WeakBuy, WeakSell, WeakHold} }
    \cup { Row(QuietShape, StrongBuy, Zero),
           Row(QuietShape, StrongSell, Zero),
           Row(QuietShape, StrongBuy, Q(1, 2)),
           Row(QuietShape, StrongSell, Q(1, 2)),
           Row(QuietShape, StrongBuy, I(50)),
           Row(QuietShape, StrongSell, I(25)) }

Bars ==
    { Row(sh, WeakHold, I(2)) : sh \in ExitShapes }
    \cup { Row(<<100, 109, 99, 100>>, StrongBuy, I(2)),
           Row(<<100, 101, 91, 100>>, StrongSell, I(2)) }

TailBars == { Row(QuietShape, WeakHold, I(2)) }

\* the last row of the feed: quiet, touching the levels of a position
\* entered at 100, or carrying a signal
LastBars ==
    { Row(QuietShape, WeakHold, I(2)),
      Row(<<98, 106, 90, 95>>, WeakHold, I(2)),
      Row(QuietShape, StrongBuy, I(2)),
      Row(<<100, 101, 91, 100>>, StrongSell, I(2)) }

\* the rows the feed may hold at index k
RowsAt(k, n) ==
    IF k = start_index THEN FirstBars
    ELSE IF k < start_index + MaxActive THEN Bars
    ELSE IF k = n - 1 THEN LastBars
    ELSE TailBars

----------------
(* Backtester: state                                                       *)

VARIABLES
    initial_capital,  \* constructor arguments
    fee_pct,
    slippage_pct,
    n_bars,           \* len(self.df)
    first_close,      \* self.df.iloc[0]['close']
    balance,          \* self.balance
    position,         \* self.position
    trades,           \* self.trades
    equity_curve,     \* self.equity_curve
    benchmark_curve,  \* self.benchmark_curve
    pc,               \* where run() stands
    i,                \* loop index of run()
    candle,           \* current_candle of the iteration
    exit_check,       \* the locals of the iteration's _check_exit call
    error,            \* the exception run() ended with
    result,           \* the value run() returned
    engine_metrics,   \* the metrics dictionary handed to SignalEngine
    analysis_result,  \* what engine.analyze() returned
    levels            \* what engine.calculate_entry_exit() returned

\* main.py line 19 and PaperTradeExecutor (execution.py lines 78-84): the
\* global paper_trader (TRUE once it holds an executor), the executor's
\* fields, the rows of paper_trade_history.csv and the value returned by the
\* last execute_order
VARIABLES paper_trader, balance_usdt, positions, position_levels, history,
          order_result

vars == <<initial_capital, fee_pct, slippage_pct, n_bars, first_close, balance,
          position, trades, equity_curve, benchmark_curve, pc, i, candle,
          exit_check, error, result, engine_metrics, analysis_result, levels,
          paper_trader, balance_usdt, positions, position_levels, history,
          order_result>>

paper == <<paper_trader, balance_usdt, positions, position_levels, history,
           order_result>>

\* the pairs the paper trader is run on, and the assets they trade
Symbols == {"BTC/USDT", "ETH/USDT"}
Assets == {"BTC", "ETH"}

\* symbol.split('/')[0]
BaseCurrency(symbol) == IF symbol = "BTC/USDT" THEN "BTC" ELSE "ETH"

\* self.positions = {} read through .get(base, 0.0); self.position_levels = {}
NoPositions == [a \in Assets |-> Zero]
NoLevels == [s \in Symbols |-> [set |-> FALSE]]

\* main.py line 248: PaperTradeExecutor(initial_balance_usdt=1000.0)
initial_balance_usdt == I(1000)

\* no paper trader in this process, no history file yet
PaperAbsent ==
    /\ paper_trader = FALSE
    /\ balance_usdt = initial_balance_usdt
    /\ positions = NoPositions
    /\ position_levels = NoLevels
    /\ history = <<>>
    /\ order_result = "-"

\* the locals that hold the SignalEngine's input and outputs
engine == <<engine_metrics, analysis_result, levels>>

config == <<initial_capital, fee_pct, slippage_pct, n_bars, first_close>>

NoPosition == [type |-> "NONE"]
NoCandle   == [timestamp |-> -1]
NoCheck    == [called |-> FALSE, done |-> FALSE]
NoResult   == [returned |-> FALSE]
NoMetrics  == [given |-> FALSE]
NoAnalysis == [done |-> FALSE]
NoSetup    == [done |-> FALSE]

\* truthiness of self.position
IsOpen(pos) == pos.type # "NONE"

\* lines 9-20: Backtester.__init__
Init ==
    /\ PaperAbsent
    /\ \E su \in Setups :
        /\ initial_capital = su.config.initial_capital
        /\ fee_pct = su.config.fee_pct
        /\ slippage_pct = su.config.slippage_pct
        /\ n_bars = su.n_bars
        /\ first_close = su.first_close
    /\ balance = initial_capital
    /\ position = NoPosition
    /\ trades = <<>>
    /\ equity_curve = <<>>
    /\ benchmark_curve = <<>>
    /\ pc = "start"
    /\ i = 0
    /\ candle = NoCandle
    /\ exit_check = NoCheck
    /\ error = "none"
    /\ result = NoResult
    /\ engine_metrics = NoMetrics
    /\ analysis_result = NoAnalysis
    /\ levels = NoSetup

----------------------------------------------------------------------------
(* Backtester: the operations on balance, position and trades              *)

Sim(b, p, t) == [balance |-> b, position |-> p, trades |-> t]

\* execute_buy without the affordability check of lines 246-247
execute_buy_unchecked(s, price0, size, sl, tp, timestamp) ==
    LET price == RMul(price0, RAdd(One, slippage_pct))
        cost == RMul(price, size)
        fee == RMul(cost, fee_pct)
        total_cost == RAdd(cost, fee)
    IN  Sim(RSub(s.balance, total_cost),
            [type |-> "BUY", entry_price |-> price, size |-> size, sl |-> sl,
             initial_sl |-> sl, tp |-> tp, entry_time |-> timestamp],
            s.trades)

\* lines 237-258
execute_buy(s, price0, size, sl, tp, timestamp) ==
    LET price == RMul(price0, RAdd(One, slippage_pct))
        cost == RMul(price, size)
        fee == RMul(cost, fee_pct)
        total_cost == RAdd(cost, fee)
    IN  IF RGt(total_cost, s.balance) THEN s
        ELSE Sim(RSub(s.balance, total_cost),
                 [type |-> "BUY", entry_price |-> price, size |-> size, sl |-> sl,
                  initial_sl |-> sl, tp |-> tp, entry_time |-> timestamp],
                 s.trades)

\* a short entry that reserves the margin without the entry fee
execute_short_without_fee(s, price0, size, sl, tp, timestamp) ==
    LET price == RMul(price0, RSub(One, slippage_pct))
        cost == RMul(price, size)
        fee == RMul(cost, fee_pct)
        required_margin == RAdd(cost, fee)
    IN  IF RGt(required_margin, s.balance) THEN s
        ELSE Sim(RSub(s.balance, cost),
                 [type |-> "SELL", entry_price |-> price, size |-> size, sl |-> sl,
                  initial_sl |-> sl, tp |-> tp, entry_time |-> timestamp],
                 s.trades)

\* lines 261-286
execute_short(s, price0, size, sl, tp, timestamp) ==
    LET price == RMul(price0, RSub(One, slippage_pct))
        cost == RMul(price, size)
        fee == RMul(cost, fee_pct)
        required_margin == RAdd(cost, fee)
    IN  IF RGt(required_margin, s.balance) THEN s
        ELSE Sim(RSub(s.balance, required_margin),
                 [type |-> "SELL", entry_price |-> price, size |-> size, sl |-> sl,
                  initial_sl |-> sl, tp |-> tp, entry_time |-> timestamp],
                 s.trades)

\* a PnL that charges the fee on the exit notional only
TradePnlExitFeeOnly(type, entry_price, price, size) ==
    LET gross_pnl == IF type = "BUY"
                       THEN RMul(RSub(price, entry_price), size)
                       ELSE RMul(RSub(entry_price, price), size)
    IN  RSub(gross_pnl, RMul(RMul(price, size), fee_pct))

\* lines 300-306 and 339-345: the PnL recorded for a trade
TradePnl(type, entry_price, price, size) ==
    LET gross_pnl == IF type = "BUY"
                       THEN RMul(RSub(price, entry_price), size)
                       ELSE RMul(RSub(entry_price, price), size)
        total_fees == RAdd(RMul(RMul(entry_price, size), fee_pct),
                           RMul(RMul(price, size), fee_pct))
    IN  RSub(gross_pnl, total_fees)

Trade(pos, type, price, timestamp, reason) ==
    LET net_pnl == TradePnl(type, pos.entry_price, price, pos.size)
    IN  [entry_time |-> pos.entry_time, exit_time |-> timestamp,
         entry_price |-> pos.entry_price, exit_price |-> price, type |-> type,
         size |-> pos.size, pnl |-> net_pnl,
         pnl_pct |-> RMul(RDiv(net_pnl, RMul(pos.entry_price, pos.size)), I(100)),
         reason |-> reason]

\* _execute_sell without self.position = None (line 320)
execute_sell_keeps_position(s, price0, timestamp, reason) ==
    LET price == RMul(price0, RSub(One, slippage_pct))
        size == s.position.size
        revenue == RMul(price, size)
        fee == RMul(revenue, fee_pct)
        net_revenue == RSub(revenue, fee)
    IN  Sim(RAdd(s.balance, net_revenue), s.position,
            Append(s.trades, Trade(s.position, "BUY", price, timestamp, reason)))

\* lines 289-320
execute_sell(s, price0, timestamp, reason) ==
    LET price == RMul(price0, RSub(One, slippage_pct))
        size == s.position.size
        revenue == RMul(price, size)
        fee == RMul(revenue, fee_pct)
        net_revenue == RSub(revenue, fee)
    IN  Sim(RAdd(s.balance, net_revenue), NoPosition,
            Append(s.trades, Trade(s.position, "BUY", price, timestamp, reason)))

\* a cover that releases the margin once instead of 2 x entry value
execute_cover_single_margin(s, price0, timestamp, reason) ==
    LET price == RMul(price0, RAdd(One, slippage_pct))
        size == s.position.size
        cost == RMul(price, size)
        fee == RMul(cost, fee_pct)
        entry_val == RMul(s.position.entry_price, size)
    IN  Sim(RSub(RSub(RAdd(s.balance, entry_val), cost), fee), NoPosition,
            Append(s.trades, Trade(s.position, "SELL", price, timestamp, reason)))

\* lines 323-359
execute_cover(s, price0, timestamp, reason) ==
    LET price == RMul(price0, RAdd(One, slippage_pct))
        size == s.position.size
        cost == RMul(price, size)
        fee == RMul(cost, fee_pct)
        entry_val == RMul(s.position.entry_price, size)
    IN  Sim(RSub(RSub(RAdd(s.balance, RMul(I(2), entry_val)), cost), fee), NoPosition,
            Append(s.trades, Trade(s.position, "SELL", price, timestamp, reason)))

\* a trailing-stop logic that never tightens the stop
TrailedStopFrozen(pos, c) == pos.sl

\* a trailing-stop logic that steps the stop away from the price, unguarded
TrailedStopLoosening(pos, c) ==
    IF pos.type = "BUY" THEN
        LET risk == RSub(pos.entry_price, pos.initial_sl)
        IN  IF /\ RGt(risk, Zero)
               /\ RGe(c.high, RAdd(pos.entry_price, RMul(TRAIL_TRIGGER, risk)))
              THEN RSub(pos.initial_sl, RMul(TRAIL_SECURE, risk)) ELSE pos.sl
    ELSE
        LET risk == RSub(pos.initial_sl, pos.entry_price)
        IN  IF /\ RGt(risk, Zero)
               /\ RLe(c.low, RSub(pos.entry_price, RMul(TRAIL_TRIGGER, risk)))
              THEN RAdd(pos.initial_sl, RMul(TRAIL_SECURE, risk)) ELSE pos.sl

\* a trailing-stop logic whose trigger is strict (> and < for >= and <=)
TrailedStopStrictTrigger(pos, c) ==
    IF pos.type = "BUY" THEN
        LET risk == RSub(pos.entry_price, pos.initial_sl)
            new_sl == RAdd(pos.entry_price, RMul(TRAIL_SECURE, risk))
        IN  IF /\ RGt(risk, Zero)
               /\ RGt(c.high, RAdd(pos.entry_price, RMul(TRAIL_TRIGGER, risk)))
               /\ RGt(new_sl, pos.sl)
              THEN new_sl ELSE pos.sl
    ELSE
        LET risk == RSub(pos.initial_sl, pos.entry_price)
            new_sl == RSub(pos.entry_price, RMul(TRAIL_SECURE, risk))
        IN  IF /\ RGt(risk, Zero)
               /\ RLt(c.low, RSub(pos.entry_price, RMul(TRAIL_TRIGGER, risk)))
               /\ RLt(new_sl, pos.sl)
              THEN new_sl ELSE pos.sl

\* lines 89-99 and 132-141: the stop after the trailing-stop logic
TrailedStop(pos, c) ==
    IF pos.type = "BUY" THEN
        LET risk == RSub(pos.entry_price, pos.initial_sl)
            new_sl == RAdd(pos.entry_price, RMul(TRAIL_SECURE, risk))
        IN  IF /\ RGt(risk, Zero)
               /\ RGe(c.high, RAdd(pos.entry_price, RMul(TRAIL_TRIGGER, risk)))
               /\ RGt(new_sl, pos.sl)
              THEN new_sl ELSE pos.sl
    ELSE
        LET risk == RSub(pos.initial_sl, pos.entry_price)
            new_sl == RSub(pos.entry_price, RMul(TRAIL_SECURE, risk))
        IN  IF /\ RGt(risk, Zero)
               /\ RLe(c.low, RSub(pos.entry_price, RMul(TRAIL_TRIGGER, risk)))
               /\ RLt(new_sl, pos.sl)
              THEN new_sl ELSE pos.sl

\* a tie-break that takes the level farther from the open
TieBreakFarther(open, sl, tp) ==
    IF RGt(RAbs(RSub(open, sl)), RAbs(RSub(open, tp))) THEN "SL" ELSE "TP"

\* lines 109-115 and 150-156: both levels touched
TieBreak(open, sl, tp) ==
    IF RLt(RAbs(RSub(open, sl)), RAbs(RSub(open, tp))) THEN "SL" ELSE "TP"

\* lines 84-99 and 127-141: the locals of _check_exit after the trailing-stop
\* logic; sl_read is the stop read from the position, sl the stop after it
TrailLocals(pos, c) ==
    [called |-> TRUE, done |-> FALSE, type |-> pos.type,
     entry |-> pos.entry_price, initial_sl |-> pos.initial_sl,
     sl_read |-> pos.sl, sl |-> TrailedStop(pos, c), tp |-> pos.tp,
     open |-> c.open, high |-> c.high, low |-> c.low,
     hit_sl |-> FALSE, hit_tp |-> FALSE, exit_price |-> None, exit_reason |-> "None"]

\* lines 103-121 and 144-162: the locals of _check_exit after touch detection
ExitLocals(loc) ==
    LET hit_sl == IF loc.type = "BUY" THEN RLe(loc.low, loc.sl) ELSE RGe(loc.high, loc.sl)
        hit_tp == IF loc.type = "BUY" THEN RGe(loc.high, loc.tp) ELSE RLe(loc.low, loc.tp)
        exit_reason == IF hit_sl /\ hit_tp THEN TieBreak(loc.open, loc.sl, loc.tp)
                       ELSE IF hit_sl THEN "SL"
                       ELSE IF hit_tp THEN "TP"
                       ELSE "None"
        exit_price == IF exit_reason = "SL" THEN loc.sl
                      ELSE IF exit_reason = "TP" THEN loc.tp
                      ELSE None
    IN  [loc EXCEPT !.done = TRUE, !.hit_sl = hit_sl, !.hit_tp = hit_tp,
                    !.exit_price = exit_price, !.exit_reason = exit_reason]

\* an exit step that charges a holding cost on bars without an exit
ExecuteExitHoldingCost(s, loc, timestamp) ==
    IF ~Truthy(loc.exit_price) THEN [s EXCEPT !.balance = RSub(s.balance, One)]
    ELSE IF loc.type = "BUY"
      THEN execute_sell(s, loc.exit_price, timestamp, loc.exit_reason)
      ELSE execute_cover(s, loc.exit_price, timestamp, loc.exit_reason)

\* lines 123-124 and 164-165
ExecuteExit(s, loc, timestamp) ==
    IF ~Truthy(loc.exit_price) THEN s
    ELSE IF loc.type = "BUY"
      THEN execute_sell(s, loc.exit_price, timestamp, loc.exit_reason)
      ELSE execute_cover(s, loc.exit_price, timestamp, loc.exit_reason)

\* lines 172-195: the metrics dictionary _check_entry hands to SignalEngine
Metrics(row) ==
    [close |-> row.close, rsi |-> row.RSI, macd_hist |-> row.MACDh,
     ema_50 |-> row.EMA_50, ema_200 |-> row.EMA_200, atr |-> row.ATR,
     trend_direction |-> IF RGt(row.EMA_50, row.EMA_200) THEN "Bullish" ELSE "Bearish",
     trend_strength |-> IF RGt(row.ADX_14, I(25)) THEN "Strong" ELSE "Weak",
     support |-> row.Support_Dynamic, resistance |-> row.Resistance_Dynamic,
     volume |-> row.volume, vol_sma |-> row.VOL_SMA_20]

\* a sizing without the price_risk == 0 return of lines 217-218: the unbounded
\* size is clipped to the affordable maximum
PositionSizeNoZeroCheck(bal, trade_setup, row) ==
    LET risk_amount == RMul(bal, RISK_PCT)
        price_risk == RAbs(RSub(trade_setup.entry, trade_setup.sl))
        max_cost == RDiv(bal, RAdd(One, fee_pct))
    IN  IF price_risk = Zero THEN RDiv(max_cost, row.close)
        ELSE LET position_size == RDiv(risk_amount, price_risk)
                 cost == RMul(position_size, row.close)
             IN  IF RGt(cost, max_cost) THEN RDiv(max_cost, row.close)
                 ELSE position_size

\* a sizing that measures the risk to the target instead of the stop
PositionSizeToTarget(bal, trade_setup, row) ==
    LET risk_amount == RMul(bal, RISK_PCT)
        price_risk == RAbs(RSub(trade_setup.entry, trade_setup.tp))
        max_cost == RDiv(bal, RAdd(One, fee_pct))
    IN  IF price_risk = Zero THEN Zero
        ELSE LET position_size == RDiv(risk_amount, price_risk)
                 cost == RMul(position_size, row.close)
             IN  IF RGt(cost, max_cost) THEN RDiv(max_cost, row.close)
                 ELSE position_size

\* lines 213-226: the size of the position to open; Zero when the entry is skipped
PositionSize(bal, trade_setup, row) ==
    LET risk_amount == RMul(bal, RISK_PCT)
        price_risk == RAbs(RSub(trade_setup.entry, trade_setup.sl))
        max_cost == RDiv(bal, RAdd(One, fee_pct))
    IN  IF price_risk = Zero THEN Zero
        ELSE LET position_size == RDiv(risk_amount, price_risk)
                 cost == RMul(position_size, row.close)
             IN  IF RGt(cost, max_cost) THEN RDiv(max_cost, row.close)
                 ELSE position_size

\* lines 208-235
position_size_and_execute(s, trade_setup, row, direction) ==
    IF RLe(s.balance, Zero) THEN s
    ELSE LET position_size == PositionSize(s.balance, trade_setup, row)
         IN  IF RLe(position_size, Zero) THEN s
             ELSE IF direction = "BUY"
               THEN execute_buy(s, row.close, position_size, trade_setup.sl,
                                trade_setup.tp, row.timestamp)
               ELSE execute_short(s, row.close, position_size, trade_setup.sl,
                                  trade_setup.tp, row.timestamp)

\* lines 167-206
check_entry(s, row) ==
    LET metrics == Metrics(row)
        analysis == analyze(metrics)
    IN  IF analysis.signal \in {"BUY", "SELL"}
          THEN position_size_and_execute(
                   s, calculate_entry_exit(metrics, analysis.signal, row.close, row.ATR),
                   row, analysis.signal)
          ELSE s

\* a mark-to-market that values a short as balance + entry value - current value
EquityShortSingleMargin(bal, pos, c) ==
    IF pos.type = "BUY" THEN RAdd(bal, RMul(pos.size, c.close))
    ELSE IF pos.type = "SELL"
      THEN RSub(RAdd(bal, RMul(pos.size, pos.entry_price)), RMul(pos.size, c.close))
    ELSE bal

\* lines 46-59: mark-to-market equity of the state at a candle
Equity(bal, pos, c) ==
    IF pos.type = "BUY" THEN RAdd(bal, RMul(pos.size, c.close))
    ELSE IF pos.type = "SELL"
      THEN RSub(RAdd(bal, RMul(I(2), RMul(pos.size, pos.entry_price))),
                RMul(pos.size, c.close))
    ELSE bal

\* a benchmark that follows the running balance instead of the initial capital
BenchmarkFromBalance(c) == RMul(RDiv(balance, first_close), c.close)

\* lines 31-32 and 69
Benchmark(c) == RMul(RDiv(initial_capital, first_close), c.close)

----------------------------------------------------------------------------
(* Backtester.run                                                          *)

\* line 31 (iloc[0] of an empty frame) and lines 38-40: how run() starts
RunStart(n) ==
    IF n = 0 THEN "IndexError"
    ELSE IF n < start_index + min_margin THEN "NotEnoughData"
    ELSE "none"

\* line 73: if self.position
ExitGuard(pos) == IsOpen(pos)

\* an entry check that runs on every bar
EntryGuardAlways(pos) == TRUE

\* line 77: if not self.position
EntryGuard(pos) == ~IsOpen(pos)

\* lines 27-40
Run ==
    /\ pc = "start"
    /\ error' = RunStart(n_bars)
    /\ pc' = IF error' = "none" THEN "record" ELSE "error"
    /\ i' = IF error' = "none" THEN start_index ELSE i
    /\ UNCHANGED <<paper, config, engine, balance, position, trades, equity_curve,
                   benchmark_curve, candle, exit_check, result>>

\* the loop body without the benchmark append of line 70
RecordBarNoBenchmark ==
    /\ pc = "record"
    /\ \E row \in RowsAt(i, n_bars) :
        /\ candle' = [timestamp |-> i] @@ row
        /\ equity_curve' = Append(equity_curve,
               [timestamp |-> i, equity |-> Equity(balance, position, row)])
    /\ exit_check' = NoCheck
    /\ pc' = IF ExitGuard(position) THEN "trail"
             ELSE IF EntryGuard(position) THEN "entry" ELSE "end"
    /\ UNCHANGED <<paper, config, engine, balance, position, trades, i, error, result,
                   benchmark_curve>>

\* lines 43-70: read the candle, record equity and benchmark
RecordBar ==
    /\ pc = "record"
    /\ \E row \in RowsAt(i, n_bars) :
        /\ candle' = [timestamp |-> i] @@ row
        /\ equity_curve' = Append(equity_curve,
               [timestamp |-> i, equity |-> Equity(balance, position, row)])
        /\ benchmark_curve' = Append(benchmark_curve,
               [timestamp |-> i, equity |-> Benchmark(row)])
    /\ exit_check' = NoCheck
    /\ pc' = IF ExitGuard(position) THEN "trail"
             ELSE IF EntryGuard(position) THEN "entry" ELSE "end"
    /\ UNCHANGED <<paper, config, engine, balance, position, trades, i, error, result>>

\* lines 84-99 and 127-141: _check_exit, trailing-stop logic
TrailStop ==
    /\ pc = "trail"
    /\ exit_check' = TrailLocals(position, candle)
    /\ position' = [position EXCEPT !.sl = exit_check'.sl]
    /\ pc' = "touch"
    /\ UNCHANGED <<paper, config, engine, balance, trades, equity_curve,
                   benchmark_curve, i, candle, error, result>>

\* lines 103-124 and 144-165: _check_exit, touch detection and exit
TouchExit ==
    /\ pc = "touch"
    /\ LET loc == ExitLocals(exit_check)
           s == ExecuteExit(Sim(balance, position, trades), loc, candle.timestamp)
       IN  /\ exit_check' = loc
           /\ balance' = s.balance
           /\ position' = s.position
           /\ trades' = s.trades
           /\ pc' = IF EntryGuard(s.position) THEN "entry" ELSE "end"
    /\ UNCHANGED <<paper, config, engine, equity_curve, benchmark_curve, i, candle,
                   error, result>>

\* a loop body that runs the exit check again after the entry check
CheckEntryThenExit ==
    /\ pc = "entry"
    /\ LET s == check_entry(Sim(balance, position, trades), candle)
       IN  /\ balance' = s.balance
           /\ position' = s.position
           /\ trades' = s.trades
    /\ engine_metrics' = [given |-> TRUE] @@ Metrics(candle)
    /\ analysis_result' = [done |-> TRUE] @@ analyze(Metrics(candle))
    /\ levels' =
          IF analysis_result'.signal \in {"BUY", "SELL"}
            THEN [done |-> TRUE] @@
                 calculate_entry_exit(Metrics(candle), analysis_result'.signal,
                                      candle.close, candle.ATR)
            ELSE NoSetup
    /\ pc' = IF IsOpen(position') THEN "trail" ELSE "end"
    /\ UNCHANGED <<paper, config, equity_curve, benchmark_curve, i, candle, exit_check,
                   error, result>>

\* line 78: _check_entry
CheckEntry ==
    /\ pc = "entry"
    /\ LET s == check_entry(Sim(balance, position, trades), candle)
       IN  /\ balance' = s.balance
           /\ position' = s.position
           /\ trades' = s.trades
    /\ engine_metrics' = [given |-> TRUE] @@ Metrics(candle)
    /\ analysis_result' = [done |-> TRUE] @@ analyze(Metrics(candle))
    /\ levels' =
          IF analysis_result'.signal \in {"BUY", "SELL"}
            THEN [done |-> TRUE] @@
                 calculate_entry_exit(Metrics(candle), analysis_result'.signal,
                                      candle.close, candle.ATR)
            ELSE NoSetup
    /\ pc' = "end"
    /\ UNCHANGED <<paper, config, equity_curve, benchmark_curve, i, candle, exit_check,
                   error, result>>

\* line 42: the loop goes on to the next candle, or ends
NextBar ==
    /\ pc = "end"
    /\ i' = i + 1
    /\ candle' = NoCandle
    /\ exit_check' = NoCheck
    /\ engine_metrics' = NoMetrics
    /\ analysis_result' = NoAnalysis
    /\ levels' = NoSetup
    /\ pc' = IF i + 1 < n_bars THEN "record" ELSE "metrics"
    /\ UNCHANGED <<paper, config, balance, position, trades, equity_curve,
                   benchmark_curve, error, result>>

RMin(x, y) == IF RLt(y, x) THEN y ELSE x
RMax(x, y) == IF RGt(y, x) THEN y ELSE x

\* a drawdown measured from the highest equity of the whole curve
MaxDrawdownGlobalPeak(curve) ==
    LET n == Len(curve)
        top[k \in 1..n] ==
            IF k = 1 THEN curve[1].equity ELSE RMax(top[k - 1], curve[k].equity)
        drawdown == [k \in 1..n |->
                        RDiv(RSub(curve[k].equity, top[n]), top[n])]
        lowest[k \in 1..n] ==
            IF k = 1 THEN drawdown[1] ELSE RMin(lowest[k - 1], drawdown[k])
    IN  RMul(lowest[n], I(100))

\* lines 373-375: peak = cummax(equity); drawdown = (equity - peak) / peak;
\* max_drawdown = min(drawdown) * 100, for a curve that is not empty
MaxDrawdown(curve) ==
    LET n == Len(curve)
        peak[k \in 1..n] ==
            IF k = 1 THEN curve[1].equity ELSE RMax(peak[k - 1], curve[k].equity)
        drawdown == [k \in 1..n |->
                        RDiv(RSub(curve[k].equity, peak[k]), peak[k])]
        lowest[k \in 1..n] ==
            IF k = 1 THEN drawdown[1] ELSE RMin(lowest[k - 1], drawdown[k])
    IN  RMul(lowest[n], I(100))

\* a break-even trade counted as a win
WinsWithBreakEven(t) == SelectSeq(t, LAMBDA x : RGe(x.pnl, Zero))

\* lines 378-379
Wins(t) == SelectSeq(t, LAMBDA x : RGt(x.pnl, Zero))
Losses(t) == SelectSeq(t, LAMBDA x : RLe(x.pnl, Zero))

\* sum(t['pnl'] for t in ...)
RECURSIVE SumPnl(_)
SumPnl(t) == IF t = <<>> THEN Zero ELSE RAdd(t[1].pnl, SumPnl(Tail(t)))

\* line 381
WinRate(t) ==
    IF t # <<>> THEN RMul(Q(Len(Wins(t)), Len(t)), I(100)) ELSE Zero

\* a profit factor of 0 for a ledger without a loss
ProfitFactorZeroWithoutLoss(t) ==
    LET total_profit == SumPnl(Wins(t))
        total_loss == RAbs(SumPnl(Losses(t)))
    IN  IF RGt(total_loss, Zero) THEN RDiv(total_profit, total_loss) ELSE Zero

\* lines 383-385
ProfitFactor(t) ==
    LET total_profit == SumPnl(Wins(t))
        total_loss == RAbs(SumPnl(Losses(t)))
    IN  IF RGt(total_loss, Zero) THEN RDiv(total_profit, total_loss) ELSE I(999)

\* lines 362-407, on an equity curve that is not empty; the Sharpe ratio
\* (a square root) is left out
calculate_metrics ==
    LET final_equity == equity_curve[Len(equity_curve)].equity
    IN  [returned |-> TRUE,
         initial_capital |-> initial_capital,
         final_equity |-> final_equity,
         roi |-> RMul(RDiv(RSub(final_equity, initial_capital), initial_capital), I(100)),
         max_drawdown |-> MaxDrawdown(equity_curve),
         total_trades |-> Len(trades),
         win_rate |-> WinRate(trades),
         profit_factor |-> ProfitFactor(trades),
         trades |-> trades,
         equity_curve |-> equity_curve,
         benchmark_curve |-> benchmark_curve]

\* line 80
CalculateMetrics ==
    /\ pc = "metrics"
    /\ result' = calculate_metrics
    /\ pc' = "done"
    /\ UNCHANGED <<paper, config, engine, balance, position, trades, equity_curve,
                   benchmark_curve, i, candle, exit_check, error>>

Next ==
    \/ Run
    \/ RecordBar
    \/ TrailStop
    \/ TouchExit
    \/ CheckEntry
    \/ NextBar
    \/ CalculateMetrics

Spec == Init /\ [][Next]_vars

----------------------------------------------------------------------------
(* Properties                                                              *)

Last(seq) == seq[Len(seq)]

\* an exit was executed by the exit check of the current bar
ExitedThisBar ==
    exit_check.done /\ Truthy(exit_check.exit_price)

\* the fill of an exit at a level: against the trader by slippage_pct
ExitFill(type, level) ==
    IF type = "BUY" THEN RMul(level, RSub(One, slippage_pct))
    ELSE RMul(level, RAdd(One, slippage_pct))

\* C1: at most one position is open in every state (position is none, or one
\* BUY (long) or SELL (short) record), and the entry check of a bar runs only
\* when no position is open at that point of the bar.
C1_SinglePosition ==
    /\ position.type \in {"NONE", "BUY", "SELL"}
    /\ pc = "entry" => ~IsOpen(position)
    /\ pc \in {"trail", "touch"} => IsOpen(position)

\* a bar whose exit check left the position open ends without an entry check
C1_Witness ==
    /\ pc = "end"
    /\ exit_check.done
    /\ exit_check.exit_reason = "None"
    /\ IsOpen(position)

C3_Original ==
    (ExitedThisBar /\ exit_check.hit_sl /\ exit_check.hit_tp) =>
        LET dsl == RAbs(RSub(exit_check.open, exit_check.sl))
            dtp == RAbs(RSub(exit_check.open, exit_check.tp))
        IN  /\ RLt(dsl, dtp) => Last(trades).exit_price = exit_check.sl
            /\ RLt(dtp, dsl) => Last(trades).exit_price = exit_check.tp

\* C3 amended: on a bar where stop and target are both touched, the exit price
\* recorded in the ledger is the level nearer to the open moved against the
\* trader by slippage_pct (x (1 - slippage_pct) for a long, x (1 + slippage_pct)
\* for a short); it is the level itself when slippage_pct = 0.
C3_TieBreakLaw ==
    (ExitedThisBar /\ exit_check.hit_sl /\ exit_check.hit_tp) =>
        LET dsl == RAbs(RSub(exit_check.open, exit_check.sl))
            dtp == RAbs(RSub(exit_check.open, exit_check.tp))
        IN  /\ Last(trades).exit_time = i
            /\ RLt(dsl, dtp) =>
                 Last(trades).exit_price = ExitFill(exit_check.type, exit_check.sl)
            /\ RLt(dtp, dsl) =>
                 Last(trades).exit_price = ExitFill(exit_check.type, exit_check.tp)
            /\ slippage_pct = Zero =>
                 Last(trades).exit_price \in {exit_check.sl, exit_check.tp}

\* both touched, the stop strictly nearer, with slippage
C3_Witness ==
    /\ ExitedThisBar /\ exit_check.hit_sl /\ exit_check.hit_tp
    /\ slippage_pct # Zero
    /\ RLt(RAbs(RSub(exit_check.open, exit_check.sl)),
           RAbs(RSub(exit_check.open, exit_check.tp)))

Equidistant ==
    RAbs(RSub(exit_check.open, exit_check.sl)) = RAbs(RSub(exit_check.open, exit_check.tp))

\* C4: when stop and target are both touched on a bar and equidistant from its
\* open, the exit is at sl with exit reason SL.
C4_TieIsStopLoss ==
    (exit_check.done /\ exit_check.hit_sl /\ exit_check.hit_tp /\ Equidistant) =>
        /\ exit_check.exit_reason = "SL"
        /\ exit_check.exit_price = exit_check.sl
        /\ Last(trades).reason = "SL"

\* what the code does on such a bar: the comparison of lines 110 and 151 is
\* strict, so the else branch exits at tp with exit reason TP
TieExitsAtTakeProfit ==
    (exit_check.done /\ exit_check.hit_sl /\ exit_check.hit_tp /\ Equidistant) =>
        /\ exit_check.exit_reason = "TP"
        /\ exit_check.exit_price = exit_check.tp
        /\ Len(trades) > 0
        /\ Last(trades).reason = "TP"
        /\ Last(trades).exit_time = i
        /\ Last(trades).exit_price = ExitFill(exit_check.type, exit_check.tp)
        /\ ~IsOpen(position) \/ position.entry_time = i

\* Scenario C: long, entry 100, stop 96 (its entry-time stop), target 108,
\* on the bar open 101, high 110, low 94
ScenarioC ==
    /\ exit_check.done
    /\ exit_check.type = "BUY"
    /\ exit_check.entry = I(100)
    /\ exit_check.sl_read = I(96)
    /\ exit_check.initial_sl = I(96)
    /\ exit_check.tp = I(108)
    /\ exit_check.open = I(101)
    /\ exit_check.high = I(110)
    /\ exit_check.low = I(94)

\* C5 as stated: Scenario C exits at level 96 with exit reason SL.
C5_Original ==
    ScenarioC => exit_check.exit_price = I(96) /\ exit_check.exit_reason = "SL"

\* C5 amended: in Scenario C the high 110 reaches entry + 2.5R = 110, so the
\* stop is first tightened to entry + 0.5R = 102; stop and target are both
\* touched, the stop is nearer to the open, and the position exits at level
\* 102 with exit reason SL.
C5_ScenarioC ==
    ScenarioC =>
        /\ exit_check.sl = I(102)
        /\ exit_check.hit_sl /\ exit_check.hit_tp
        /\ exit_check.exit_price = I(102)
        /\ exit_check.exit_reason = "SL"
        /\ Last(trades).reason = "SL"
        /\ Last(trades).exit_price = ExitFill("BUY", I(102))
        /\ Last(trades).exit_time = i

C5_Witness == ScenarioC /\ ~IsOpen(position) /\ Len(trades) = 1

\* C6: while a position is open its stop never loosens: a long's stop never
\* decreases, a short's never increases.
C6_MonotonicStop ==
    [][(IsOpen(position) /\ IsOpen(position')
          /\ position'.entry_time = position.entry_time)
        => /\ position.type = "BUY" => RGe(position'.sl, position.sl)
           /\ position.type = "SELL" => RLe(position'.sl, position.sl)
           /\ position'.initial_sl = position.initial_sl]_vars

\* a position whose stop has been tightened
C6_Witness ==
    /\ IsOpen(position)
    /\ position.sl # position.initial_sl

\* C7: with R = |entry - initial stop|, the trailing-stop logic moves the stop
\* to entry + 0.5R (long) / entry - 0.5R (short) when the bar's high >= entry +
\* 2.5R (long) / low <= entry - 2.5R (short) and that is more favourable than
\* the current stop, and leaves it unchanged otherwise.
C7_TrailingStop ==
    exit_check.called =>
        LET R == RAbs(RSub(exit_check.entry, exit_check.initial_sl))
            long == exit_check.type = "BUY"
            reached == IF long
                         THEN RGe(exit_check.high,
                                  RAdd(exit_check.entry, RMul(Q(5, 2), R)))
                         ELSE RLe(exit_check.low,
                                  RSub(exit_check.entry, RMul(Q(5, 2), R)))
            secured == IF long THEN RAdd(exit_check.entry, RMul(Q(1, 2), R))
                       ELSE RSub(exit_check.entry, RMul(Q(1, 2), R))
            better == IF long THEN RGt(secured, exit_check.sl_read)
                      ELSE RLt(secured, exit_check.sl_read)
        IN  /\ exit_check.sl = IF reached /\ better THEN secured ELSE exit_check.sl_read
            /\ pc = "touch" => position.sl = exit_check.sl

\* Scenario D: entry 100, initial stop 96, stop 96, high 111: the stop becomes 102
C7_Witness ==
    /\ pc = "touch"
    /\ exit_check.type = "BUY"
    /\ exit_check.entry = I(100)
    /\ exit_check.initial_sl = I(96)
    /\ exit_check.sl_read = I(96)
    /\ exit_check.high = I(111)
    /\ position.sl = I(102)

\* the state of a Backtester as constructed
AsConstructed ==
    /\ balance = initial_capital
    /\ position = NoPosition
    /\ trades = <<>>
    /\ equity_curve = <<>>
    /\ benchmark_curve = <<>>

\* C9: a run over fewer than start_index + 10 bars ends with the explicit
\* insufficient-data error, returns no result and leaves balance, position,
\* trade ledger, equity curve and benchmark curve as constructed.
C9_InsufficientData ==
    (n_bars < start_index + min_margin /\ pc # "start") =>
        /\ pc = "error"
        /\ error = "NotEnoughData"
        /\ result = NoResult
        /\ AsConstructed

\* the signal of the current candle and the price risk of its trade setup
SignalOf(row) == analyze(Metrics(row)).signal

PriceRiskOf(row) ==
    LET setup == calculate_entry_exit(Metrics(row), SignalOf(row), row.close, row.ATR)
    IN  RAbs(RSub(setup.entry, setup.sl))

\* C10: when the signal is BUY or SELL and the price risk of the trade setup
\* is 0, the entry check opens no position and changes neither balance nor
\* ledgers, and the run goes on to the next bar.
C10_DegenerateRisk ==
    [][(pc = "entry" /\ SignalOf(candle) \in {"BUY", "SELL"}
          /\ PriceRiskOf(candle) = Zero)
        => /\ position' = position
           /\ balance' = balance
           /\ trades' = trades
           /\ equity_curve' = equity_curve
           /\ benchmark_curve' = benchmark_curve
           /\ error' = "none"
           /\ pc' = "end"]_vars

\* the entry check has run on a BUY or SELL signal with price risk 0
C10_Witness ==
    /\ pc = "end"
    /\ SignalOf(candle) \in {"BUY", "SELL"}
    /\ PriceRiskOf(candle) = Zero
    /\ ~IsOpen(position)
    /\ ~exit_check.called

----------------------------------------------------------------------------
(* Properties of entries, exits and the ledger                             *)

\* the quantities of _position_size_and_execute for the setup just computed
\* by the entry check, from the balance before it
PriceRisk(su) == RAbs(RSub(su.entry, su.sl))
RiskSized(bal, su) == RDiv(RMul(bal, Q(2, 100)), PriceRisk(su))
MaxCost(bal) == RDiv(bal, RAdd(One, fee_pct))
OverCap(bal, su, close) == RGt(RMul(RiskSized(bal, su), close), MaxCost(bal))

\* the entry check runs on a BUY or SELL signal with a positive balance and a
\* non-degenerate setup
SizedEntry ==
    /\ pc = "entry"
    /\ levels'.done
    /\ RGt(balance, Zero)
    /\ PriceRisk(levels') # Zero

\* C11: when the risk-based size makes size x close exceed max_cost =
\* balance / (1 + fee_pct), the size is clipped to max_cost / close and, the
\* clipped size being > 0, a position with the clipped size is opened, for BUY
\* and for SELL and for every slippage_pct; only a clipped size <= 0 skips.
C11_InsufficientCapital ==
    [][(SizedEntry /\ OverCap(balance, levels', candle.close))
        => LET clipped == RDiv(MaxCost(balance), candle.close)
           IN  IF RGt(clipped, Zero)
                 THEN /\ IsOpen(position')
                      /\ position'.type = analysis_result'.signal
                      /\ position'.size = clipped
                 ELSE position' = position]_vars


\* a step that closes the open position
Exits == IsOpen(position) /\ ~IsOpen(position')

\* C12: on every exit the fill price is the trigger level moved against the
\* trader by slippage_pct (long: level x (1 - slippage_pct), short: level x
\* (1 + slippage_pct)), and the PnL recorded for the trade is the gross PnL
\* between entry fill and exit fill times size, minus fee_pct of the entry
\* notional and fee_pct of the exit notional.
C12_ExitFillAndPnl ==
    [][Exits =>
        LET t == Last(trades')
            p == position.entry_price
            sz == position.size
            level == exit_check'.exit_price
            q == IF position.type = "BUY"
                   THEN RMul(level, RSub(One, slippage_pct))
                   ELSE RMul(level, RAdd(One, slippage_pct))
            gross == IF position.type = "BUY" THEN RMul(RSub(q, p), sz)
                     ELSE RMul(RSub(p, q), sz)
        IN  /\ level \in {exit_check'.sl, exit_check'.tp}
            /\ t.exit_price = q
            /\ t.entry_price = p
            /\ t.size = sz
            /\ t.pnl = RSub(RSub(gross, RMul(fee_pct, RMul(p, sz))),
                            RMul(fee_pct, RMul(q, sz)))]_vars

\* a short covered with fee and slippage
C12_Witness ==
    /\ ExitedThisBar
    /\ exit_check.type = "SELL"
    /\ fee_pct # Zero
    /\ slippage_pct # Zero
    /\ Last(trades).exit_time = i

\* C13: every exit appends exactly one trade, with exit reason SL or TP, and
\* leaves no position open in the same step; the ledger grows only through
\* exits.
C13_OneTradePerExit ==
    [][/\ Exits =>
            /\ Len(trades') = Len(trades) + 1
            /\ SubSeq(trades', 1, Len(trades)) = trades
            /\ Last(trades').reason \in {"SL", "TP"}
            /\ position' = NoPosition
       /\ trades' # trades => Exits]_vars

\* an exit has just been executed: one trade, no position
C13_Witness ==
    /\ pc = "entry"
    /\ ExitedThisBar
    /\ Len(trades) = 1
    /\ position = NoPosition


\* the stop or the target is touched by the bar's range, after the
\* trailing-stop update
Touched ==
    IF exit_check.type = "BUY"
      THEN RLe(exit_check.low, exit_check.sl) \/ RGe(exit_check.high, exit_check.tp)
      ELSE RGe(exit_check.high, exit_check.sl) \/ RLe(exit_check.low, exit_check.tp)

\* the position was exited on the current bar
ExitedOnBar == Len(trades) > 0 /\ Last(trades).exit_time = i

\* C14: on a bar with an open position, the position is exited on that bar if
\* and only if its stop or target is touched by the bar's range after the
\* trailing-stop update (long: low <= sl or high >= tp; short: high >= sl or
\* low <= tp), whatever the values of sl and tp.
C14_TouchDetection ==
    exit_check.done => (ExitedOnBar <=> Touched)

\* what the code does: the exit runs under `if exit_price:` (lines 123, 164),
\* so a touched level of 0 exits nothing
ExitsIffTruthyLevelTouched ==
    exit_check.done =>
        (ExitedOnBar <=> (Touched /\ Truthy(exit_check.exit_price)))


\* C15: for an entry whose notional is within the affordability cap, the
\* opened position's size is (2% of the balance before the entry) / |entry -
\* sl| of the trade setup, so that size x price_risk = 0.02 x balance.
C15_RiskSizing ==
    [][(SizedEntry /\ ~OverCap(balance, levels', candle.close) /\ IsOpen(position'))
        => /\ position'.size = RDiv(RMul(Q(2, 100), balance), PriceRisk(levels'))
           /\ RMul(position'.size, PriceRisk(levels')) = RMul(Q(2, 100), balance)]_vars

\* Scenario E: balance 10000, entry 100, sl 96: size 50, unclipped
C15_Witness ==
    /\ pc = "end"
    /\ i = start_index
    /\ initial_capital = I(10000)
    /\ levels.done
    /\ levels.entry = I(100)
    /\ levels.sl = I(96)
    /\ IsOpen(position)
    /\ position.size = I(50)

\* C16: the equity sample recorded for a bar is the balance when flat,
\* balance + size x close when long, and balance + 2 x (size x entry_price) -
\* size x close when short, on the state as it stands at the start of the bar.
C16_MarkToMarket ==
    [][pc = "record" =>
        LET sample == Last(equity_curve')
            c == candle'.close
        IN  /\ Len(equity_curve') = Len(equity_curve) + 1
            /\ sample.timestamp = i
            /\ position.type = "NONE" => sample.equity = balance
            /\ position.type = "BUY" =>
                 sample.equity = RAdd(balance, RMul(position.size, c))
            /\ position.type = "SELL" =>
                 sample.equity =
                   RSub(RAdd(balance,
                             RMul(I(2), RMul(position.size, position.entry_price))),
                        RMul(position.size, c))]_vars

\* an equity sample has been recorded for an open short on a bar whose close
\* differs from the entry bar's
C16_Witness ==
    /\ pc = "trail"
    /\ position.type = "SELL"
    /\ candle.close # I(100)
    /\ Len(equity_curve) = 2

\* C17: opening a short at fill price p with size s decreases the balance by
\* p s (1 + fee_pct); covering it at fill price q increases the balance by
\* 2 p s - q s - q s fee_pct; an entry fills at the bar's close x (1 +
\* slippage_pct) for a buy and x (1 - slippage_pct) for a short.
C17_ShortCollateral ==
    [][/\ (pc = "entry" /\ IsOpen(position')) =>
            LET p == position'.entry_price
                sz == position'.size
            IN  /\ position'.type = "BUY" =>
                     p = RMul(candle.close, RAdd(One, slippage_pct))
                /\ position'.type = "SELL" =>
                     /\ p = RMul(candle.close, RSub(One, slippage_pct))
                     /\ balance' = RSub(balance, RMul(RMul(p, sz), RAdd(One, fee_pct)))
       /\ (Exits /\ position.type = "SELL") =>
            LET p == position.entry_price
                sz == position.size
                q == Last(trades').exit_price
            IN  balance' =
                  RSub(RSub(RAdd(balance, RMul(I(2), RMul(p, sz))), RMul(q, sz)),
                       RMul(RMul(q, sz), fee_pct))]_vars

\* a short opened and covered with fee and slippage
C17_Witness ==
    /\ ExitedThisBar
    /\ exit_check.type = "SELL"
    /\ Last(trades).type = "SELL"
    /\ Last(trades).exit_time = i
    /\ fee_pct # Zero
    /\ slippage_pct # Zero
    /\ position = NoPosition


----------------------------------------------------------------------------
(* SignalEngine on a metrics snapshot (main.py, run_analysis)            *)

\* volume and its 20-period average, as pairs <<volume, vol_sma>>
VolumePairs ==
    { <<I(250), I(100)>>, <<I(200), I(100)>>, <<I(100), I(100)>>,
      <<I(50), I(100)>>, <<I(100), Zero>> }

\* the snapshots handed to the engine: close 100, ATR 2, every combination
\* of the other metrics around the boundaries of analyze's comparisons
Snapshots ==
    { [close |-> I(100), atr |-> I(2),
       trend_direction |-> dir, trend_strength |-> str,
       ema_50 |-> e50, ema_200 |-> e200, rsi |-> rsi, macd_hist |-> mh,
       support |-> sup, resistance |-> res,
       volume |-> vp[1], vol_sma |-> vp[2]] :
        dir \in {"Bullish", "Bearish", "Sideways"},
        str \in {"Weak", "Medium", "Strong", "Very Strong", "None"},
        e50 \in {I(95), I(100), I(105), None},
        e200 \in {I(90), I(110), None},
        rsi \in {I(25), I(35), I(40), I(50), I(55), I(60), I(70), I(75)},
        mh \in {I(-1), Zero, I(1)},
        sup \in {None, I(99), I(100)},
        res \in {I(101), I(150)},
        vp \in VolumePairs }

\* main.py line 152: engine = SignalEngine(metrics); no Backtester runs
SignalInit ==
    /\ PaperAbsent
    /\ engine_metrics \in { [given |-> TRUE] @@ m : m \in Snapshots }
    /\ analysis_result = NoAnalysis
    /\ levels = NoSetup
    /\ pc = "analyze"
    /\ initial_capital = I(10000)
    /\ fee_pct = Zero
    /\ slippage_pct = Zero
    /\ n_bars = 0
    /\ first_close = None
    /\ balance = initial_capital
    /\ position = NoPosition
    /\ trades = <<>>
    /\ equity_curve = <<>>
    /\ benchmark_curve = <<>>
    /\ i = 0
    /\ candle = NoCandle
    /\ exit_check = NoCheck
    /\ error = "none"
    /\ result = NoResult

backtester == <<config, balance, position, trades, equity_curve, benchmark_curve,
                i, candle, exit_check, error, result>>

\* main.py line 153: analysis_result = engine.analyze()
Analyze ==
    /\ pc = "analyze"
    /\ analysis_result' = [done |-> TRUE] @@ analyze(engine_metrics)
    /\ pc' = "entry_exit"
    /\ UNCHANGED <<paper, backtester, engine_metrics, levels>>

\* main.py lines 154-158: trade_setup = engine.calculate_entry_exit(signal,
\* metrics['close'], metrics['atr'])
EntryExit ==
    /\ pc = "entry_exit"
    /\ levels' = [done |-> TRUE] @@
                 calculate_entry_exit(engine_metrics, analysis_result.signal,
                                      engine_metrics.close, engine_metrics.atr)
    /\ pc' = "report"
    /\ UNCHANGED <<paper, backtester, engine_metrics, analysis_result>>

SignalNext ==
    \/ Analyze
    \/ EntryExit

SignalSpec == SignalInit /\ [][SignalNext]_vars


----------------------------------------------------------------------------
(* Properties of the SignalEngine                                          *)

\* the engine has analysed a snapshot
Analysed == engine_metrics.given /\ analysis_result.done

\* C18: whenever trend_strength is Weak, analyze returns HOLD, never BUY or
\* SELL, whatever the other metrics.
C18_WeakRegimeGate ==
    (Analysed /\ engine_metrics.trend_strength = "Weak")
        => analysis_result.signal = "HOLD"

\* what the code does in a Weak regime: the score restarts at 0 and the MACD,
\* support/resistance and volume rules still apply, so |score| <= 45
WeakRegimeScoreRange ==
    (Analysed /\ engine_metrics.trend_strength = "Weak")
        => /\ analysis_result.probability >= 5
           /\ analysis_result.probability <= 95

\* the scoring rules 1-5 as the specification words them
Sign(x) == IF x > 0 THEN 1 ELSE IF x < 0 THEN -1 ELSE 0
Has(x) == x # None /\ x # Zero

Rule1(m) ==
    LET above == Has(m.ema_50) /\ RGt(m.close, m.ema_50)
        below == Has(m.ema_50) /\ RLt(m.close, m.ema_50)
    IN  CASE m.trend_direction = "Bullish" -> 15 + (IF above THEN 10 ELSE 0)
          [] m.trend_direction = "Bearish" -> -(15 + (IF below THEN 10 ELSE 0))
          [] OTHER -> 0

Rule2(m, s0) ==
    IF m.trend_strength = "Weak" THEN 0
    ELSE
      LET bull == Has(m.ema_200) /\ RGt(m.close, m.ema_200)
          bear == Has(m.ema_200) /\ ~bull
          s1 == CASE bull /\ s0 > 0 -> s0 + 15
                  [] bull /\ s0 < 0 -> 0
                  [] bear /\ s0 < 0 -> s0 - 15
                  [] bear /\ s0 > 0 -> 0
                  [] OTHER -> s0
          s2 == IF m.trend_strength \in {"Strong", "Very Strong"}
                  THEN s1 + 10 * Sign(s1) ELSE s1
          very == m.trend_strength = "Very Strong"
          r == m.rsi
          rsi == CASE bull /\ RLt(r, I(40)) -> 20
                   [] bull /\ RGt(r, I(70)) -> (IF very THEN 5 ELSE -10)
                   [] bull /\ RGt(r, I(50)) /\ RLe(r, I(70)) -> 10
                   [] bear /\ RGt(r, I(60)) -> -20
                   [] bear /\ RLt(r, I(30)) -> (IF very THEN -5 ELSE 10)
                   [] bear /\ RLt(r, I(50)) /\ RGe(r, I(30)) -> -10
                   [] OTHER -> 0
      IN  s2 + rsi

Rule3(m, s) == IF RGt(m.macd_hist, Zero) THEN s + 10 ELSE s - 10

Rule4(m, s) ==
    s + (IF Has(m.support) /\ RLe(RMul(I(100), m.close), RMul(I(101), m.support))
           THEN 15 ELSE 0)
      - (IF Has(m.resistance) /\ RGe(RMul(I(100), m.close), RMul(I(99), m.resistance))
           THEN 15 ELSE 0)

Rule5(m, s) ==
    IF ~(Has(m.volume) /\ Has(m.vol_sma)) THEN s
    ELSE LET v == RMul(I(10), m.volume)
             a == m.vol_sma
         IN  CASE RGt(v, RMul(I(20), a)) -> s + 20 * Sign(s)
               [] RGt(v, RMul(I(12), a)) /\ RLe(v, RMul(I(20), a)) -> s + 10 * Sign(s)
               [] RLt(v, RMul(I(6), a)) -> s - 5 * Sign(s)
               [] OTHER -> s

SpecScore(m) == Rule5(m, Rule4(m, Rule3(m, Rule2(m, Rule1(m)))))

Clamp(x, lo, hi) == IF x < lo THEN lo ELSE IF x > hi THEN hi ELSE x

ScenarioA ==
    /\ engine_metrics.given
    /\ engine_metrics.trend_direction = "Bullish"
    /\ engine_metrics.trend_strength = "Very Strong"
    /\ engine_metrics.close = I(100)
    /\ engine_metrics.ema_50 = I(95)
    /\ engine_metrics.ema_200 = I(90)
    /\ engine_metrics.rsi = I(35)
    /\ engine_metrics.macd_hist = I(1)
    /\ engine_metrics.support = I(99)
    /\ engine_metrics.resistance = I(150)
    /\ engine_metrics.volume = I(250)
    /\ engine_metrics.vol_sma = I(100)

\* C20: for the snapshot of Scenario A, analyze returns probability 100,
\* signal BUY and confidence 100.
C20_ScenarioA ==
    (ScenarioA /\ analysis_result.done)
        => /\ analysis_result.probability = 100
           /\ analysis_result.signal = "BUY"
           /\ analysis_result.confidence = 100

C20_Witness == ScenarioA /\ analysis_result.done /\ pc = "entry_exit"


\* the score analyze has accumulated for the snapshot when it normalises it
\* (line 170: base_probability = 50 + score)
RawScore == Score(engine_metrics)

\* C21 as stated: for the Scenario A metrics the additive score before
\* clamping is 115, the support-proximity rule contributing +15.
C21_Original ==
    (ScenarioA /\ analysis_result.done) => RawScore = 115

\* C21 amended: for the Scenario A metrics the additive score before clamping
\* is 100: the support-proximity rule contributes nothing, because close 100
\* is above support x 1.01 = 99.99.
C21_ScenarioARawScore ==
    (ScenarioA /\ analysis_result.done) =>
        /\ RawScore = 100
        /\ RGt(engine_metrics.close, RMul(engine_metrics.support, Q(101, 100)))
        /\ SupportResistanceScore(engine_metrics, RawScore - 20) = RawScore - 20
        /\ analysis_result.probability = 100

C21_Witness == ScenarioA /\ analysis_result.done /\ pc = "report"

\* C22: the decision is well formed: probability in [0,100]; confidence =
\* 2 x |probability - 50|, in [0,100]; signal BUY iff probability >= 75, SELL
\* iff probability <= 25, HOLD otherwise, with the reason that goes with it.
C22_DecisionWellFormed ==
    Analysed =>
        LET p == analysis_result.probability
            c == analysis_result.confidence
        IN  /\ p \in 0..100
            /\ c \in 0..100
            /\ c = 2 * (IF p >= 50 THEN p - 50 ELSE 50 - p)
            /\ analysis_result.signal \in {"BUY", "SELL", "HOLD"}
            /\ analysis_result.signal = "BUY" <=> p >= 75
            /\ analysis_result.signal = "SELL" <=> p <= 25
            /\ analysis_result.signal = "BUY" <=>
                 analysis_result.reason = "Strong Bullish Confluence"
            /\ analysis_result.signal = "SELL" <=>
                 analysis_result.reason = "Strong Bearish Confluence"
            /\ analysis_result.signal = "HOLD" <=>
                 analysis_result.reason = "Market Indecisive"

\* a decision on the BUY threshold
C22_Witness ==
    /\ Analysed
    /\ analysis_result.probability = 75
    /\ analysis_result.signal = "BUY"

\* C25: for a non-Weak trend strength with EMA-200 available, analyze never
\* returns SELL when close > EMA-200 and never returns BUY when close <=
\* EMA-200.
C25_RegimeFilter ==
    (/\ Analysed
     /\ engine_metrics.trend_strength \in {"Medium", "Strong", "Very Strong"}
     /\ engine_metrics.ema_200 # None)
        => /\ RGt(engine_metrics.close, engine_metrics.ema_200)
                => analysis_result.signal # "SELL"
           /\ RLe(engine_metrics.close, engine_metrics.ema_200)
                => analysis_result.signal # "BUY"

\* what the code guarantees: the filter zeroes a counter-trend score of rule 1
\* only; a bearish trend in a bull regime (or the reverse) with a Strong trend
\* cannot reach the opposite extreme through rule 1
CounterTrendScoreIsKilled ==
    (/\ Analysed
     /\ engine_metrics.trend_strength \in {"Medium", "Strong", "Very Strong"}
     /\ engine_metrics.ema_200 # None)
        => /\ (RGt(engine_metrics.close, engine_metrics.ema_200)
                 /\ TrendScore(engine_metrics) < 0)
                => RegimeFilter(engine_metrics, TrendScore(engine_metrics)) = 0
           /\ (RLe(engine_metrics.close, engine_metrics.ema_200)
                 /\ TrendScore(engine_metrics) > 0)
                => RegimeFilter(engine_metrics, TrendScore(engine_metrics)) = 0


----------------------------------------------------------------------------
(* SignalEngine.calculate_entry_exit on its own                            *)

\* the calls made to calculate_entry_exit: a signal, a price and an ATR, on
\* an engine whose metrics hold (or lack) a trend strength
LevelCalls ==
    { [trend_strength |-> str, signal |-> sg, price |-> price, atr |-> atr] :
        str \in {"Weak", "Medium", "Strong", "Very Strong", "None"},
        sg \in {"BUY", "SELL", "HOLD"},
        price \in {I(1), I(100), Q(5, 2)},
        atr \in {Zero, Q(1, 2), I(2), I(50)} }

\* main.py lines 152-153: the engine is built and has produced a signal
LevelsInit ==
    /\ PaperAbsent
    /\ \E call \in LevelCalls :
        /\ engine_metrics = [given |-> TRUE, trend_strength |-> call.trend_strength,
                             close |-> call.price, atr |-> call.atr]
        /\ analysis_result = [done |-> TRUE, signal |-> call.signal]
    /\ levels = NoSetup
    /\ pc = "entry_exit"
    /\ initial_capital = I(10000)
    /\ fee_pct = Zero
    /\ slippage_pct = Zero
    /\ n_bars = 0
    /\ first_close = None
    /\ balance = initial_capital
    /\ position = NoPosition
    /\ trades = <<>>
    /\ equity_curve = <<>>
    /\ benchmark_curve = <<>>
    /\ i = 0
    /\ candle = NoCandle
    /\ exit_check = NoCheck
    /\ error = "none"
    /\ result = NoResult

LevelsSpec == LevelsInit /\ [][EntryExit]_vars

\* the engine has computed the levels of a BUY or SELL
Levelled == levels.done /\ analysis_result.signal \in {"BUY", "SELL"}

\* the levels that go with multiples <<sl_mult, tp_mult>>
LevelsWith(mult) ==
    LET price == engine_metrics.close
        atr == engine_metrics.atr
        up == analysis_result.signal = "BUY"
    IN  /\ levels.entry = price
        /\ levels.sl = IF up THEN RSub(price, RMul(mult[1], atr))
                       ELSE RAdd(price, RMul(mult[1], atr))
        /\ levels.tp = IF up THEN RAdd(price, RMul(mult[2], atr))
                       ELSE RSub(price, RMul(mult[2], atr))

\* C23 as stated: (2.0, 4.0) for Strong and Very Strong, (1.8, 3.0) for Medium
\* and for an absent trend_strength, (1.5, 2.0) for Weak.
C23_Original ==
    Levelled =>
        LevelsWith(CASE engine_metrics.trend_strength \in {"Strong", "Very Strong"}
                          -> <<I(2), I(4)>>
                     [] engine_metrics.trend_strength = "Weak"
                          -> <<Q(3, 2), I(2)>>
                     [] OTHER -> <<Q(9, 5), I(3)>>)

\* C23 amended: (2.0, 4.0) for Strong and Very Strong, (1.8, 3.0) for Medium,
\* and (1.5, 2.0) for Weak, which is also what an absent trend_strength is
\* read as; BUY: entry = price, sl = price - sl_mult x atr, tp = price +
\* tp_mult x atr; SELL mirrored.
C23_Levels ==
    Levelled =>
        LevelsWith(CASE engine_metrics.trend_strength \in {"Strong", "Very Strong"}
                          -> <<I(2), I(4)>>
                     [] engine_metrics.trend_strength \in {"Weak", "None"}
                          -> <<Q(3, 2), I(2)>>
                     [] engine_metrics.trend_strength = "Medium"
                          -> <<Q(9, 5), I(3)>>)

\* Scenario B: BUY, price 100, atr 2, Very Strong: entry 100, sl 96, tp 108
C23_Witness ==
    /\ Levelled
    /\ analysis_result.signal = "BUY"
    /\ engine_metrics.trend_strength = "Very Strong"
    /\ engine_metrics.close = I(100)
    /\ engine_metrics.atr = I(2)
    /\ levels.entry = I(100)
    /\ levels.sl = I(96)
    /\ levels.tp = I(108)

\* C24: for a HOLD signal the levels are all zero: entry = 0, sl = 0, tp = 0.
C24_HoldAllZero ==
    (levels.done /\ analysis_result.signal = "HOLD")
        => /\ levels.entry = Zero
           /\ levels.sl = Zero
           /\ levels.tp = Zero

\* what the code returns for HOLD (line 225): the price as entry, sl and tp 0
HoldKeepsPrice ==
    (levels.done /\ analysis_result.signal = "HOLD")
        => /\ levels.entry = engine_metrics.close
           /\ levels.sl = Zero
           /\ levels.tp = Zero


----------------------------------------------------------------------------
(* Backtester: the curves                                                  *)

\* C26: the benchmark sample recorded for a processed bar is
\* (initial_capital / close of the first bar of the data) x the bar's close,
\* whatever the balance, the position and the trades are.
C26_Benchmark ==
    candle # NoCandle =>
        Last(benchmark_curve) =
            [timestamp |-> candle.timestamp,
             equity |-> RMul(RDiv(initial_capital, first_close), candle.close)]

\* a bar recorded while a position is open, after the balance has moved, at a
\* close other than the first bar's
C26_Witness ==
    /\ candle # NoCandle
    /\ Len(benchmark_curve) >= 2
    /\ IsOpen(position)
    /\ balance # initial_capital
    /\ trades # <<>>
    /\ candle.close # first_close

\* curve c extended by samples only: what was recorded stays as it was
Extends(c, d) ==
    /\ Len(d) >= Len(c)
    /\ \A k \in 1..Len(c) : d[k] = c[k]

\* one sample per processed bar, in bar order, under the bars' timestamps
OnePerBar(c) ==
    /\ Len(c) = n_bars - start_index
    /\ \A k \in 1..Len(c) : c[k].timestamp = start_index + k - 1

\* C27: after a completed run over N bars the equity curve and the benchmark
\* curve hold one sample per processed bar (N - 200 each), in bar order with
\* the bars' timestamps; samples are only appended, never changed.
C27_Curves ==
    /\ [](pc = "done" =>
            /\ OnePerBar(equity_curve)
            /\ OnePerBar(benchmark_curve)
            /\ result.equity_curve = equity_curve
            /\ result.benchmark_curve = benchmark_curve)
    /\ [][/\ Extends(equity_curve, equity_curve')
          /\ Extends(benchmark_curve, benchmark_curve')
          /\ Len(equity_curve') <= Len(equity_curve) + 1
          /\ Len(benchmark_curve') = Len(equity_curve')]_vars

\* a completed run over 211 bars, 11 of them processed, with a closed trade
C27_Witness ==
    /\ pc = "done"
    /\ n_bars = start_index + min_margin + 1
    /\ Len(equity_curve) = min_margin + 1
    /\ Len(benchmark_curve) = min_margin + 1
    /\ trades # <<>>


----------------------------------------------------------------------------
(* Backtester._calculate_metrics on its own                                *)

MaxTrades == 3
MaxSamples == 3

\* sequences over S of length lo..hi
SeqsOf(S, lo, hi) == UNION { [1..n -> S] : n \in lo..hi }

\* ledgers of closed trades; pnl is the field _calculate_metrics reads
Ledgers ==
    SeqsOf({ [pnl |-> I(p)] : p \in {-100, 0, 50, 150} }, 0, MaxTrades)

\* the equity of the last bars of a run: gains, losses, and a short position
\* gone under water
EquityTails == SeqsOf({I(9000), I(10000), I(11000), I(-500)}, 1, MaxSamples)

\* a curve over bars 200, 201, ...: the capital for min_margin - 1 flat
\* bars (the first bar is always recorded without a position), then the tail
CurveOf(capital, tail) ==
    [k \in 1..(min_margin - 1 + Len(tail)) |->
        [timestamp |-> start_index + k - 1,
         equity |-> IF k < min_margin THEN capital ELSE tail[k - min_margin + 1]]]

\* line 80: the loop of run has ended, _calculate_metrics is about to run
MetricsInit ==
    /\ PaperAbsent
    /\ initial_capital = I(10000)
    /\ fee_pct = Zero
    /\ slippage_pct = Zero
    /\ first_close = I(100)
    /\ \E ledger \in Ledgers, tail \in EquityTails :
        /\ trades = ledger
        /\ equity_curve = CurveOf(initial_capital, tail)
    /\ benchmark_curve = CurveOf(initial_capital, [k \in 1..(Len(equity_curve) - min_margin + 1) |-> initial_capital])
    /\ n_bars = start_index + Len(equity_curve)
    /\ balance = Last(equity_curve).equity
    /\ position = NoPosition
    /\ pc = "metrics"
    /\ i = n_bars
    /\ candle = NoCandle
    /\ exit_check = NoCheck
    /\ error = "none"
    /\ result = NoResult
    /\ engine_metrics = NoMetrics
    /\ analysis_result = NoAnalysis
    /\ levels = NoSetup

MetricsSpec == MetricsInit /\ [][CalculateMetrics]_vars

\* C28: a completed run in which no trade was closed returns its result
\* without an error, with total_trades = 0, win rate 0 and profit factor 999.
C28_EmptyLedger ==
    (pc = "done" /\ trades = <<>>)
        => /\ error = "none"
           /\ result.returned
           /\ result.total_trades = 0
           /\ result.win_rate = Zero
           /\ result.profit_factor = I(999)

\* a whole run that closed no trade: its one position is still open at the
\* end
C28_Witness ==
    /\ pc = "done"
    /\ trades = <<>>
    /\ IsOpen(position)
    /\ result.returned
    /\ result.total_trades = 0

\* the trades of the ledger, by position, that satisfy Test
TradesWhere(Test(_)) == { k \in 1..Len(trades) : Test(trades[k].pnl) }

\* the sum of the PnL of the trades at the positions S
RECURSIVE PnlOver(_)
PnlOver(S) ==
    IF S = {} THEN Zero
    ELSE LET k == CHOOSE x \in S : TRUE
         IN  RAdd(trades[k].pnl, PnlOver(S \ {k}))

\* C29: a win is a trade with PnL > 0, every other trade is a loss;
\* win rate = wins / total_trades x 100; profit factor = sum of the winning
\* PnL / |sum of the losing PnL| when some trade has PnL < 0, and the
\* sentinel 999 when no trade has PnL < 0.
C29_TradeStatistics ==
    LET won == TradesWhere(LAMBDA x : RGt(x, Zero))
        lost == (1..Len(trades)) \ won
        negative == TradesWhere(LAMBDA x : RLt(x, Zero))
    IN  pc = "done" =>
          /\ result.total_trades = Len(trades)
          /\ trades # <<>> =>
                result.win_rate = Q(100 * Cardinality(won), Len(trades))
          /\ negative # {} =>
                result.profit_factor = RDiv(PnlOver(won), RAbs(PnlOver(lost)))
          /\ negative = {} => result.profit_factor = I(999)

\* a ledger with a win, a break-even trade and a loss: one win out of three,
\* 150 won against 100 lost
C29_Witness ==
    /\ pc = "done"
    /\ Len(trades) = 3
    /\ \E a, b, c \in 1..3 :
        /\ RGt(trades[a].pnl, Zero)
        /\ trades[b].pnl = Zero
        /\ RLt(trades[c].pnl, Zero)
    /\ result.win_rate = Q(100, 3)
    /\ result.profit_factor = Q(3, 2)

\* C30: max drawdown = 100 x the minimum over the samples i of
\* (equity_i - peak_i) / peak_i, peak_i the highest equity up to and
\* including i; it is never positive, and it is 0 exactly when no sample is
\* below an earlier one.
C30_MaxDrawdown ==
    LET n == Len(equity_curve)
        e(k) == equity_curve[k].equity
        peak(k) == CHOOSE p \in { e(j) : j \in 1..k } :
                       \A j \in 1..k : RLe(e(j), p)
        dd(k) == RMul(RDiv(RSub(e(k), peak(k)), peak(k)), I(100))
        m == result.max_drawdown
    IN  pc = "done" =>
          /\ \E k \in 1..n : m = dd(k)
          /\ \A k \in 1..n : RLe(m, dd(k))
          /\ RLe(m, Zero)
          /\ (m = Zero) <=> (\A k \in 1..n : \A j \in 1..k : RGe(e(k), e(j)))

\* a curve that rises to 11000, falls to 9000 and recovers: the drawdown is
\* taken from the peak of 11000, -2000 / 11000
C30_Witness ==
    /\ pc = "done"
    /\ \E k \in 2..(Len(equity_curve) - 1) :
        /\ equity_curve[k - 1].equity = I(10000)
        /\ equity_curve[k].equity = I(11000)
        /\ equity_curve[k + 1].equity = I(9000)
    /\ result.max_drawdown = RNeg(Q(200, 11))


----------------------------------------------------------------------------
(* Backtester: the end of a run, frames and orderings                      *)

\* the last bar of the feed has been processed
LastBarDone == pc = "end" /\ i + 1 = n_bars

\* C31: final_equity is the mark-to-market value of the state the run ends
\* in: the final balance when it ends FLAT, the mark-to-market of the open
\* position at the last bar's close otherwise; ROI% is derived from it.
\* (From the end of the last bar to the return, balance and position stay.)
C31_FinalEquity ==
    /\ LastBarDone => Last(equity_curve).equity = Equity(balance, position, candle)
    /\ pc = "done" =>
          /\ result.final_equity = Last(equity_curve).equity
          /\ ~IsOpen(position) => result.final_equity = balance
          /\ result.roi = RMul(RDiv(RSub(result.final_equity, initial_capital),
                                    initial_capital), I(100))

\* what the code returns: the sample recorded at the start of the last bar,
\* before that bar's exit and entry checks, and the ROI of that sample
FinalEquityIsLastSample ==
    pc = "done" =>
        /\ result.final_equity = Last(equity_curve).equity
        /\ Last(equity_curve).timestamp = n_bars - 1
        /\ result.roi = RMul(RDiv(RSub(result.final_equity, initial_capital),
                                  initial_capital), I(100))


\* C34: on a bar where the open position is not exited, balance and ledger
\* are unchanged and so is the position but for its current stop; on a bar
\* where the simulator is FLAT and the engine returns HOLD, balance, position
\* and ledger are unchanged; trades in the ledger are never modified.
C34_Frame ==
    [][/\ (IsOpen(position) /\ IsOpen(position')) =>
              /\ balance' = balance
              /\ trades' = trades
              /\ [position' EXCEPT !.sl = position.sl] = position
       /\ (pc = "entry" /\ analysis_result'.signal = "HOLD") =>
              /\ ~IsOpen(position)
              /\ balance' = balance
              /\ position' = position
              /\ trades' = trades
       /\ Extends(trades, trades')]_vars

\* a bar on which an open position was exit-checked and kept, with a trade
\* already in the ledger
C34_Witness ==
    /\ pc = "end"
    /\ IsOpen(position)
    /\ position.entry_time < i
    /\ exit_check.done
    /\ ~Truthy(exit_check.exit_price)
    /\ trades # <<>>

\* C35: the minimum history is 250 bars: a run over fewer bars is rejected
\* with the 'Not enough data points' error, a run over at least 250 bars is
\* accepted.
C35_MinimumHistory ==
    pc # "start" =>
        /\ n_bars < 250 => error = "NotEnoughData"
        /\ n_bars >= 250 => error = "none"

\* what line 39 checks: fewer than start_index + 10 bars
MinimumHistoryIs210 ==
    (pc # "start" /\ n_bars > 0) =>
        (error = "NotEnoughData" <=> n_bars < start_index + min_margin)

\* C36: within a bar the exit check runs before the entry check: a position
\* opened on bar i is not exit-checked on bar i, and every trade of the ledger
\* has its exit_time after its entry_time.
C36_ExitBeforeEntry ==
    /\ \A k \in 1..Len(trades) : trades[k].exit_time > trades[k].entry_time
    /\ pc \in {"trail", "touch"} => (IsOpen(position) /\ position.entry_time < i)
    /\ (IsOpen(position) /\ position.entry_time = i) => pc = "end"

\* a position closed and another opened on the same bar: exit first, then entry
C36_Witness ==
    /\ pc = "end"
    /\ exit_check.done
    /\ Truthy(exit_check.exit_price)
    /\ Last(trades).exit_time = i
    /\ IsOpen(position)
    /\ position.entry_time = i

\* C37: whenever the simulator is FLAT, balance = initial_capital + the sum
\* of the PnL of the trades in the ledger, for longs and shorts alike.
C37_Conservation ==
    ~IsOpen(position) => balance = RAdd(initial_capital, SumPnl(trades))

\* FLAT after a long and a short have been closed, with fees or slippage
C37_Witness ==
    /\ ~IsOpen(position)
    /\ \E a, b \in 1..Len(trades) : trades[a].type = "BUY" /\ trades[b].type = "SELL"
    /\ fee_pct # Zero \/ slippage_pct # Zero

\* C38: a tightened stop does not survive a bar: a bar that triggers the
\* trailing-stop update also touches the take-profit and exits the position,
\* so at every bar boundary an open position's stop is its initial stop.
C38_NoTightenedStopSurvives ==
    /\ (IsOpen(position) /\ pc # "touch") => position.sl = position.initial_sl
    /\ (pc = "touch" /\ position.sl # position.initial_sl) =>
          /\ ExitLocals(exit_check).hit_tp
          /\ Truthy(ExitLocals(exit_check).exit_price)

\* the trailing-stop update has just tightened the stop of a position
C38_Witness ==
    /\ pc = "touch"
    /\ IsOpen(position)
    /\ position.sl # position.initial_sl
    /\ exit_check.sl_read = position.initial_sl

\* C39: at the first processed bar the benchmark sample equals
\* initial_capital, the value of the first equity sample.
C39_BenchmarkStartsAtCapital ==
    benchmark_curve # <<>> =>
        /\ benchmark_curve[1].equity = initial_capital
        /\ benchmark_curve[1].equity = equity_curve[1].equity

\* the first equity sample is the capital; the first benchmark sample is the
\* capital scaled by the move from row 0 to row 200
BenchmarkStartsAtRowZero ==
    benchmark_curve # <<>> =>
        /\ equity_curve[1].equity = initial_capital
        /\ benchmark_curve[1].timestamp = start_index
        /\ \E c \in FirstBars :
              benchmark_curve[1].equity =
                  RMul(RDiv(initial_capital, first_close), c.close)


----------------------------------------------------------------------------
(* PaperTradeExecutor (src/src/execution.py) and its use in main.py        *)
(*                                                                         *)
(* A row of paper_trade_history.csv is modelled by its Symbol, Type,       *)
(* Amount, Price, Value and Balance columns.  csv.writer writes a float by *)
(* its shortest round-trip text and float() reads that text back to the    *)
(* same float, so a row holds the numbers themselves; the Timestamp column *)
(* is read by nothing in the executor and is left out.                     *)

MaxOrders == 3

\* the arguments of the execute_order calls
OrderSides == {"buy", "sell"}
OrderAmounts == {Q(1, 200), I(1), I(12)}
OrderPrices == {I(90), I(110)}
TickerPrices == {I(90), I(100), I(110)}

\* the levels main.py hands to set_position_levels for an entry at 100
PaperLevels == [set |-> TRUE, side |-> "BUY", entry |-> I(100), sl |-> I(96),
                tp |-> I(108)]

\* a replay that skips the SELL rows
RestoredPositionsBuysOnly(rows, pos) ==
    LET after[k \in 0..Len(rows)] ==
            IF k = 0 THEN pos
            ELSE LET row == rows[k]
                     base == BaseCurrency(row.symbol)
                     held == after[k - 1][base]
                 IN  IF row.side = "BUY"
                       THEN [after[k - 1] EXCEPT ![base] = RAdd(held, row.amount)]
                       ELSE after[k - 1]
    IN  after[Len(rows)]

\* lines 98-115: the holdings after the rows have been replayed onto pos
RestoredPositions(rows, pos) ==
    LET after[k \in 0..Len(rows)] ==
            IF k = 0 THEN pos
            ELSE LET row == rows[k]
                     base == BaseCurrency(row.symbol)
                     held == after[k - 1][base]
                 IN  IF row.side = "BUY"
                       THEN [after[k - 1] EXCEPT ![base] = RAdd(held, row.amount)]
                     ELSE IF row.side = "SELL"
                       THEN [after[k - 1] EXCEPT
                               ![base] = RMax(RSub(held, row.amount), Zero)]
                     ELSE after[k - 1]
    IN  after[Len(rows)]

\* lines 116-121: the balance column of the last row, if there is a row
RestoredBalance(rows, bal) ==
    IF rows = <<>> THEN bal ELSE rows[Len(rows)].balance

\* lines 146-189: get_position_info; found = FALSE stands for None
get_position_info(rows, symbol, current_price) ==
    LET fold[k \in 0..Len(rows)] ==
            IF k = 0 THEN [qty |-> Zero, avg_cost |-> Zero]
            ELSE LET row == rows[k]
                     prev == fold[k - 1]
                 IN  IF row.symbol # symbol THEN prev
                     ELSE IF row.side = "BUY"
                       THEN LET current_val == RMul(prev.qty, prev.avg_cost)
                                new_val == RMul(row.amount, row.price)
                                total_qty == RAdd(prev.qty, row.amount)
                            IN  [qty |-> total_qty,
                                 avg_cost |-> IF RGt(total_qty, Zero)
                                                THEN RDiv(RAdd(current_val, new_val), total_qty)
                                                ELSE prev.avg_cost]
                     ELSE IF row.side = "SELL"
                       THEN [prev EXCEPT !.qty = RMax(RSub(prev.qty, row.amount), Zero)]
                     ELSE prev
        qty == fold[Len(rows)].qty
        avg_cost == fold[Len(rows)].avg_cost
    IN  IF RLe(qty, Zero) \/ RLe(avg_cost, Zero) THEN [found |-> FALSE]
        ELSE [found |-> TRUE, symbol |-> symbol, base |-> BaseCurrency(symbol),
              qty |-> qty, avg_cost |-> avg_cost, current_price |-> current_price,
              unrealized |-> RSub(RMul(qty, current_price), RMul(qty, avg_cost)),
              unrealized_pct |-> RMul(RDiv(RSub(current_price, avg_cost), avg_cost), I(100))]

\* the state of an executor and of its history file
Paper(bal, pos, rows, ret) ==
    [balance_usdt |-> bal, positions |-> pos, history |-> rows, result |-> ret]

\* line 242: the row _log_trade appends
LogRow(symbol, side, amount, price, value, bal) ==
    [symbol |-> symbol, side |-> side, amount |-> amount, price |-> price,
     value |-> value, balance |-> bal]

\* an execute_order that buys without looking at the balance
execute_order_on_credit(e, symbol, side, amount, price) ==
    LET base_currency == BaseCurrency(symbol)
        value == RMul(amount, price)
        current_qty == e.positions[base_currency]
    IN  IF side = "buy" THEN
            IF RGt(RMul(current_qty, price), One) THEN [e EXCEPT !.result = "None"]
            ELSE LET bal == RSub(e.balance_usdt, value)
                 IN  Paper(bal,
                           [e.positions EXCEPT ![base_currency] = RAdd(current_qty, amount)],
                           Append(e.history, LogRow(symbol, "BUY", amount, price, value, bal)),
                           "closed")
        ELSE IF side = "sell" THEN
            IF RGe(current_qty, amount)
              THEN LET bal == RAdd(e.balance_usdt, value)
                   IN  Paper(bal,
                             [e.positions EXCEPT ![base_currency] = RSub(current_qty, amount)],
                             Append(e.history, LogRow(symbol, "SELL", amount, price, value, bal)),
                             "closed")
              ELSE [e EXCEPT !.result = "None"]
        ELSE [e EXCEPT !.result = "None"]

\* lines 191-245: execute_order with its _log_trade; result is the returned
\* order's status, or "None"
execute_order(e, symbol, side, amount, price) ==
    LET base_currency == BaseCurrency(symbol)
        value == RMul(amount, price)
        current_qty == e.positions[base_currency]
    IN  IF side = "buy" THEN
            IF RGt(RMul(current_qty, price), One) THEN [e EXCEPT !.result = "None"]
            ELSE IF RGe(e.balance_usdt, value)
              THEN LET bal == RSub(e.balance_usdt, value)
                   IN  Paper(bal,
                             [e.positions EXCEPT ![base_currency] = RAdd(current_qty, amount)],
                             Append(e.history, LogRow(symbol, "BUY", amount, price, value, bal)),
                             "closed")
              ELSE [e EXCEPT !.result = "None"]
        ELSE IF side = "sell" THEN
            IF RGe(current_qty, amount)
              THEN LET bal == RAdd(e.balance_usdt, value)
                   IN  Paper(bal,
                             [e.positions EXCEPT ![base_currency] = RSub(current_qty, amount)],
                             Append(e.history, LogRow(symbol, "SELL", amount, price, value, bal)),
                             "closed")
              ELSE [e EXCEPT !.result = "None"]
        ELSE [e EXCEPT !.result = "None"]

\* the state of main.py before its first analysis: no paper trader
PaperInit ==
    /\ PaperAbsent
    /\ initial_capital = I(10000)
    /\ fee_pct = Zero
    /\ slippage_pct = Zero
    /\ n_bars = 0
    /\ first_close = None
    /\ balance = initial_capital
    /\ position = NoPosition
    /\ trades = <<>>
    /\ equity_curve = <<>>
    /\ benchmark_curve = <<>>
    /\ pc = "paper"
    /\ i = 0
    /\ candle = NoCandle
    /\ exit_check = NoCheck
    /\ error = "none"
    /\ result = NoResult
    /\ engine_metrics = NoMetrics
    /\ analysis_result = NoAnalysis
    /\ levels = NoSetup

\* main.py lines 246-248 and execution.py lines 78-84: a process without a
\* paper trader creates one; __init__ restores it from the history file.
\* The fields read here are those of the executor of the process before.
CreatePaperTrader ==
    /\ ~paper_trader
    /\ paper_trader' = TRUE
    /\ balance_usdt' = RestoredBalance(history, initial_balance_usdt)
    /\ positions' = RestoredPositions(history, NoPositions)
    /\ position_levels' = NoLevels
    /\ order_result' = "-"
    /\ UNCHANGED <<history, backtester, engine, pc>>

\* the process ends: the global is gone, the history file stays (the fields
\* keep the values the executor had, for comparison with its successor)
ProcessExit ==
    /\ paper_trader
    /\ paper_trader' = FALSE
    /\ UNCHANGED <<balance_usdt, positions, position_levels, history,
                   order_result, backtester, engine, pc>>

\* execution.py lines 191-245
ExecuteOrder ==
    /\ paper_trader
    /\ Len(history) < MaxOrders
    /\ \E symbol \in Symbols, side \in OrderSides, amount \in OrderAmounts,
          price \in OrderPrices :
        LET e == execute_order(Paper(balance_usdt, positions, history, "-"),
                               symbol, side, amount, price)
        IN  /\ balance_usdt' = e.balance_usdt
            /\ positions' = e.positions
            /\ history' = e.history
            /\ order_result' = e.result
    /\ UNCHANGED <<paper_trader, position_levels, backtester, engine, pc>>

\* execution.py lines 131-137, called from main.py lines 275-282
SetPositionLevels ==
    /\ paper_trader
    /\ \E symbol \in Symbols :
        position_levels' = [position_levels EXCEPT ![symbol] = PaperLevels]
    /\ UNCHANGED <<paper_trader, balance_usdt, positions, history, order_result,
                   backtester, engine, pc>>

\* main.py lines 42-69: check_paper_auto_close(symbol, current_price)
CheckPaperAutoClose ==
    /\ Len(history) < MaxOrders
    /\ \E symbol \in Symbols, current_price \in TickerPrices :
        LET pos_info == get_position_info(history, symbol, current_price)
            lv == position_levels[symbol]
            triggered ==
                IF ~paper_trader \/ ~pos_info.found \/ ~lv.set \/ lv.side # "BUY"
                  THEN "None"
                ELSE IF RLe(current_price, lv.sl) THEN "SL"
                ELSE IF RGe(current_price, lv.tp) THEN "TP"
                ELSE "None"
            e == execute_order(Paper(balance_usdt, positions, history, "-"),
                               symbol, "sell", pos_info.qty, current_price)
        IN  IF triggered = "None"
              THEN UNCHANGED <<balance_usdt, positions, history, order_result,
                               position_levels>>
              ELSE /\ balance_usdt' = e.balance_usdt
                   /\ positions' = e.positions
                   /\ history' = e.history
                   /\ order_result' = e.result
                   /\ position_levels' =
                          [position_levels EXCEPT ![symbol] = [set |-> FALSE]]
    /\ UNCHANGED <<paper_trader, backtester, engine, pc>>

PaperNext ==
    \/ CreatePaperTrader
    \/ ProcessExit
    \/ ExecuteOrder
    \/ SetPositionLevels
    \/ CheckPaperAutoClose

PaperSpec == PaperInit /\ [][PaperNext]_vars


\* the BUY rows of the ledger for a symbol
BuyRows(symbol) ==
    { k \in 1..Len(history) :
        history[k].symbol = symbol /\ history[k].side = "BUY" }

Held(rows, symbol) == get_position_info(rows, symbol, I(100)).found

\* C33: while a paper holding opened by a BUY is open, the stop/target
\* levels set for it stay available on every later invocation, also after the
\* executor has been re-created from the ledger.
C33_LevelsPersist ==
    [][\A symbol \in Symbols :
          (/\ position_levels[symbol].set
           /\ Held(history, symbol)
           /\ Held(history', symbol))
             => position_levels'[symbol] = position_levels[symbol]]_vars

\* what holds: the levels stay as long as the same executor object lives
LevelsKeptByTheProcess ==
    [][\A symbol \in Symbols :
          (/\ paper_trader /\ paper_trader'
           /\ position_levels[symbol].set
           /\ Held(history, symbol)
           /\ Held(history', symbol))
             => position_levels'[symbol] = position_levels[symbol]]_vars

\* and are gone when the executor is created anew (line 82)
NewExecutorHasNoLevels ==
    [][(~paper_trader /\ paper_trader') => position_levels' = NoLevels]_vars

\* C40: the virtual USDT balance and every holding are >= 0; a rejected order
\* (BUY while the holding is worth more than 1 USDT, BUY costing more than
\* the balance, SELL of more than is held) returns None and leaves balance,
\* holdings and ledger unchanged.
C40_NoOverdraft ==
    /\ [](/\ RGe(balance_usdt, Zero)
          /\ \A a \in Assets : RGe(positions[a], Zero))
    /\ [][/\ order_result' = "None" =>
                UNCHANGED <<balance_usdt, positions, history>>
          /\ history' # history =>
                LET row == history'[Len(history')]
                    held == positions[BaseCurrency(row.symbol)]
                IN  /\ history' = Append(history, row)
                    /\ order_result' = "closed"
                    /\ row.side = "BUY" =>
                          /\ RLe(RMul(held, row.price), One)
                          /\ RLe(row.value, balance_usdt)
                    /\ row.side = "SELL" => RLe(row.amount, held)]_vars

\* an order rejected by an executor that holds an asset bought out of its
\* balance
C40_Witness ==
    /\ paper_trader
    /\ order_result = "None"
    /\ history # <<>>
    /\ \E a \in Assets : RGt(positions[a], Zero)
    /\ RLt(balance_usdt, initial_balance_usdt)


=============================================================================
